---- MODULE Spec2Model ----
(***************************************************************************)
(* Model of the Rosobrnadzor registry loader (src/src/data_loader/loader.py)*)
(* and of the tables it reconciles into (src/src/models.py).               *)
(*                                                                         *)
(* Text values are sequences of one-character strings, so that the string  *)
(* operations of the loader (strip, capitalize, lower, split) are computed *)
(* and not assumed.  Cyrillic literals of the source are transliterated.   *)
(*                                                                         *)
(* The relational database and the SQLAlchemy session are external: the    *)
(* model keeps the committed store (db), the view of the open transaction  *)
(* (tx) and the objects added to the session and not yet flushed (pending).*)
(* A query autoflushes first (Flask-SQLAlchemy sessions have autoflush on).*)
(***************************************************************************)
EXTENDS Integers, Sequences, FiniteSets, TLC

\* Python None for a text value (no character sequence equals it) and SQL NULL
\* for an integer column (row ids start at 1)
NULL == <<"None">>
NoId == 0

\* Python truthiness of an optional text value
Truthy(s) == s # NULL /\ s # <<>>

\* ---------------------------------------------------------------- bounds
MaxRecs == 2
MaxRuns == 2
MaxUpdates == 1

\* ------------------------------------------------------------- text values
LowerChars == <<"a","b","c","d","e","f","g","h","i","j","k","l","m",
                "n","o","p","q","r","s","t","u","v","w","x","y","z">>
UpperChars == <<"A","B","C","D","E","F","G","H","I","J","K","L","M",
                "N","O","P","Q","R","S","T","U","V","W","X","Y","Z">>
Digits == {"0","1","2","3","4","5","6","7","8","9"}
Whitespace == {" "}

LowerChar(c) ==
    IF \E k \in 1..Len(UpperChars) : UpperChars[k] = c
    THEN LowerChars[CHOOSE k \in 1..Len(UpperChars) : UpperChars[k] = c]
    ELSE c

UpperChar(c) ==
    IF \E k \in 1..Len(LowerChars) : LowerChars[k] = c
    THEN UpperChars[CHOOSE k \in 1..Len(LowerChars) : LowerChars[k] = c]
    ELSE c

\* str.lower()
Lower(s) == [k \in 1..Len(s) |-> LowerChar(s[k])]

\* str.capitalize(): first character upper-cased, the rest lower-cased
Capitalize(s) ==
    [k \in 1..Len(s) |-> IF k = 1 THEN UpperChar(s[k]) ELSE LowerChar(s[k])]

\* str.strip(): leading and trailing whitespace removed
Strip(s) ==
    LET nonws == {k \in 1..Len(s) : s[k] \notin Whitespace}
    IN  IF nonws = {} THEN <<>>
        ELSE LET lo == CHOOSE k \in nonws : \A m \in nonws : k <= m
                 hi == CHOOSE k \in nonws : \A m \in nonws : k >= m
             IN  SubSeq(s, lo, hi)

\* needle in haystack (substring test)
Contains(hay, needle) ==
    \E k \in 1..(Len(hay) - Len(needle) + 1) :
        SubSeq(hay, k, k + Len(needle) - 1) = needle

\* str.split(',', 1): <<whole>> without a comma, else <<before, after>>
SplitComma(s) ==
    LET commas == {k \in 1..Len(s) : s[k] = ","}
    IN  IF commas = {} THEN <<s>>
        ELSE LET c == CHOOSE k \in commas : \A m \in commas : k <= m
             IN  <<SubSeq(s, 1, c - 1), SubSeq(s, c + 1, Len(s))>>

\* str.isdigit(): non-empty and all digits
IsDigit(s) == Len(s) > 0 /\ \A k \in 1..Len(s) : s[k] \in Digits

PostalCodeLen == 6

\* 'g. moskva', 'moskovskaya oblast', 'g. sankt-peterburg', 'leningradskaya oblast'
possible_regions ==
    << <<"g","."," ","m","o","s","k","v","a">>,
       <<"m","o","s","k","o","v","s","k","a","y","a"," ","o","b","l","a","s","t">>,
       <<"g","."," ","s","a","n","k","t","-","p","e","t","e","r","b","u","r","g">>,
       <<"l","e","n","i","n","g","r","a","d","s","k","a","y","a"," ","o","b","l","a","s","t">> >>

\* the mutation of ExtractRegionFromAddress that takes a leading postal code
\* for the region
ExtractRegionKeepsPostalCode(address) ==
    LET address_lower == Lower(address)
        hits == {k \in 1..Len(possible_regions) :
                    Contains(address_lower, possible_regions[k])}
        parts == SplitComma(address)
    IN  IF hits # {}
        THEN Capitalize(possible_regions[CHOOSE k \in hits : \A m \in hits : k <= m])
        ELSE IF Len(parts) > 1 THEN Capitalize(Strip(parts[1]))
        ELSE NULL

\* DataLoader._extract_region_from_address: NULL when nothing can be extracted
ExtractRegionFromAddress(address) ==
    LET address_lower == Lower(address)
        hits == {k \in 1..Len(possible_regions) :
                    Contains(address_lower, possible_regions[k])}
        parts == SplitComma(address)
    IN  IF hits # {}
        THEN Capitalize(possible_regions[CHOOSE k \in hits : \A m \in hits : k <= m])
        ELSE IF Len(parts) > 1
        THEN LET first == Strip(parts[1])
                 region_part ==
                     IF IsDigit(first) /\ Len(first) = PostalCodeLen
                     THEN Strip(SplitComma(parts[2])[1])
                     ELSE first
             IN  Capitalize(region_part)
        ELSE NULL

\* ------------------------------------------------------------ the store
\* Tables of src/src/models.py; a store is a record of five sets of rows.
EmptyStore ==
    [region |-> {}, specialty_group |-> {}, specialty |-> {},
     educational_organization |-> {}, educational_program |-> {}]

Tables == {"region", "specialty_group", "specialty",
           "educational_organization", "educational_program"}

MaxOf(S) == IF S = {} THEN 0 ELSE CHOOSE n \in S : \A m \in S : n >= m

\* the integer primary key the database gives to a new row
NextId(rows) == MaxOf({r.id : r \in rows}) + 1

\* session.query(Model).filter_by(field=value): the matching rows, and .first()
FilterBy(rows, field, value) == {r \in rows : r[field] = value}
First(hits) == CHOOSE r \in hits : \A q \in hits : r.id <= q.id

\* obj.id of the object with this natural key: NoId while it is only pending
IdOf(rows, field, value) ==
    IF FilterBy(rows, field, value) = {} THEN NoId
    ELSE First(FilterBy(rows, field, value)).id

\* the mutation of InsertAllowed of a database without constraints
InsertAllowedAnything(s, o) == o = o

\* Column constraints of models.py checked by the database on INSERT.
\* unique=True admits several NULLs; nullable=False rejects NULL.
InsertAllowed(s, o) ==
    CASE o.kind = "region" ->
            /\ o.name # NULL
            /\ \A r \in s.region : r.name # o.name
      [] o.kind = "specialty_group" ->
            /\ o.code # NULL /\ o.name # NULL
            /\ \A r \in s.specialty_group : r.code # o.code
      [] o.kind = "specialty" ->
            /\ o.code # NULL /\ o.name # NULL /\ o.group_id # NoId
            /\ \A r \in s.specialty : r.code # o.code
      [] o.kind = "educational_organization" ->
            /\ o.full_name # NULL
            /\ o.ogrn # NULL => \A r \in s.educational_organization : r.ogrn # o.ogrn
            /\ o.inn # NULL => \A r \in s.educational_organization : r.inn # o.inn
      [] o.kind = "educational_program" ->
            /\ o.organization_id # NoId /\ o.specialty_id # NoId

\* the row written for a pending object; an organization's region relationship
\* (a Region object, possibly inserted in the same flush) becomes region_id
RowOf(s, o) ==
    CASE o.kind = "region" ->
            [id |-> NextId(s.region), name |-> o.name]
      [] o.kind = "specialty_group" ->
            [id |-> NextId(s.specialty_group), code |-> o.code, name |-> o.name]
      [] o.kind = "specialty" ->
            [id |-> NextId(s.specialty), code |-> o.code, name |-> o.name,
             group_id |-> o.group_id]
      [] o.kind = "educational_organization" ->
            [id |-> NextId(s.educational_organization),
             full_name |-> o.full_name, short_name |-> o.short_name,
             ogrn |-> o.ogrn, inn |-> o.inn, address |-> o.address,
             region_id |-> IF o.region = NULL THEN NoId
                           ELSE IdOf(s.region, "name", o.region),
             parent_id |-> NoId]
      [] o.kind = "educational_program" ->
            [id |-> NextId(s.educational_program),
             organization_id |-> o.organization_id,
             specialty_id |-> o.specialty_id]

Insert(s, o) == [s EXCEPT ![o.kind] = @ \cup {RowOf(s, o)}]

\* session.flush(): the pending objects are inserted in the order they were
\* added; the first constraint violation raises IntegrityError.
RECURSIVE Flush(_, _)
Flush(s, objs) ==
    IF objs = <<>> THEN [ok |-> TRUE, store |-> s]
    ELSE IF ~InsertAllowed(s, Head(objs)) THEN [ok |-> FALSE, store |-> s]
    ELSE Flush(Insert(s, Head(objs)), Tail(objs))

\* a get-or-create that adds a new object without looking for the row
GetOrCreateAlways(s, pend, obj, field) ==
    LET f == Flush(s, pend)
    IN  IF ~f.ok THEN [ok |-> FALSE, store |-> s, pending |-> pend, created |-> FALSE]
        ELSE [ok |-> TRUE, store |-> f.store, pending |-> <<obj>>, created |-> TRUE]

\* DataLoader._get_or_create: the query autoflushes the pending objects, then
\* either finds the row or adds a new object (not flushed) to the session.
GetOrCreate(s, pend, obj, field) ==
    LET f == Flush(s, pend)
    IN  IF ~f.ok THEN [ok |-> FALSE, store |-> s, pending |-> pend, created |-> FALSE]
        ELSE IF FilterBy(f.store[obj.kind], field, obj[field]) # {}
        THEN [ok |-> TRUE, store |-> f.store, pending |-> <<>>, created |-> FALSE]
        ELSE [ok |-> TRUE, store |-> f.store, pending |-> <<obj>>, created |-> TRUE]

\* ------------------------------------------------------- parsed records
\* natural keys and texts used by the inputs
O1 == <<"1">>
O2 == <<"2">>
O9 == <<"9">>
I1 == <<"i">>
I2 == <<"j">>
S1 == <<"s">>
S2 == <<"t">>
G1 == <<"g">>
G2 == <<"h">>
NameA == <<"a">>
NameB == <<"b">>
\* an address with a postal code, whose region part is "q"
AddrQ == <<"1","2","3","4","5","6",","," ","q",","," ","x">>

Prog(scode, gcode) ==
    [specialty_code |-> scode, specialty_name |-> scode,
     ugs_code |-> gcode, ugs_name |-> gcode]

\* an organization record as _parse_xml_files builds it (loader.py 305-316)
Rec(ogrn, full_name, inn, is_branch, parent_ogrn, region_name, address, programs) ==
    [ogrn |-> ogrn, full_name |-> full_name, short_name |-> <<>>, inn |-> inn,
     address |-> address, is_branch |-> is_branch, parent_ogrn |-> parent_ogrn,
     region_name |-> region_name, programs |-> programs]

\* The records the reconciliation runs draw from: a head organization with a
\* region, an address and a program; its branch with the same region spelled differently
\* and the same program listed twice; a branch of an unknown parent with its
\* region only in the address and a specialty under a second group; a record
\* without OGRN; organizations without INN; a branch naming itself.
RecordsCore ==
    { Rec(O1, NameA, I1, FALSE, NULL, <<"r">>, AddrQ, <<Prog(S1, G1)>>),
      Rec(O2, NameA, I2, TRUE, O1, <<" ","R">>, <<>>, <<Prog(S1, G1), Prog(S1, G1)>>),
      Rec(O2, NameB, I2, TRUE, O9, <<>>, AddrQ, <<Prog(S1, G2)>>),
      Rec(<<>>, NameA, <<>>, FALSE, NULL, <<"q">>, <<>>, <<Prog(S2, G1)>>),
      Rec(O1, NameB, <<>>, FALSE, NULL, <<>>, <<>>, <<Prog(S2, G1), Prog(<<>>, G2)>>),
      Rec(O2, NameA, <<>>, TRUE, O2, <<>>, <<>>, <<>>),
      Rec(O1, NameA, I1, TRUE, O2, <<>>, <<>>, <<Prog(S2, <<>>)>>) }

\* all lists of at most n records of U
RECURSIVE ListsUpTo(_, _)
ListsUpTo(U, n) ==
    IF n = 0 THEN {<<>>}
    ELSE LET shorter == ListsUpTo(U, n - 1)
         IN  shorter \cup {Append(l, r) : l \in shorter, r \in U}

\* stores the database can hold before the first run: nothing, or the
\* classification group G1 loaded beforehand
SeedGroup == [EmptyStore EXCEPT !.specialty_group = {[id |-> 1, code |-> G1, name |-> G1]}]
InitStores == {EmptyStore, SeedGroup}

\* ------------------------------------------------------------- the state
VARIABLES
    db,             \* the committed store
    tx,             \* the store as the open transaction sees it
    pending,        \* objects added to the session, not yet flushed
    cache,          \* the four in-run caches of _populate_db (natural keys)
    pc,             \* position in _populate_db
    input,          \* organizations_data
    i,              \* index of the record of the running pass
    j,              \* index of the program of record i (pass 2)
    group,          \* local variable group (its code)
    specialty,      \* local variable specialty (its code)
    runs,           \* number of invocations so far
    outcome,        \* how the last invocation ended
    error,          \* the exception that ended it, if any
    sessionCalls,   \* commit / rollback calls of the running invocation
    added,          \* session.add calls of the running invocation
    dbBefore,       \* the committed store when the invocation started
    rerun,          \* the invocation got the same input as the one before
    prevOutcome,    \* outcome of the invocation before
    universe,       \* the records direct invocations draw their input from
    \* run_update and _parse_xml_files
    stage,          \* position in run_update
    stages,         \* the stages the running run_update went through
    updates,        \* the calls of run_update so far
    data_url,       \* config.ROSOBRNADZOR_DATA_URL
    appArg,         \* whether the call under way was given an application
    cacheBefore,    \* the files of the cache directory when run_update started
    files,          \* the files of the cache directory
    archive_filename,
    xml_files,      \* the list glob returned to _parse_xml_files
    fileIdx,        \* index of the file being parsed
    certIdx,        \* number of certificates of that file handled so far
    tree,           \* the Certificate elements the document tree of that file holds
    organizations_in_file,
    all_organizations_data,
    origins         \* for each parsed record, the certificate it was read from

runVars == <<stage, stages, updates, data_url, appArg, cacheBefore, files, archive_filename, xml_files,
             fileIdx, certIdx, tree, organizations_in_file, all_organizations_data, origins>>

popVars == <<db, tx, pending, cache, pc, input, i, j, group, specialty, runs,
             outcome, error, sessionCalls, added, dbBefore, rerun, prevOutcome, universe>>

EmptyCache ==
    [organizations |-> {}, regions |-> {}, specialty_groups |-> {}, specialties |-> {}]

\* the mutation of RunCaches of caches that outlive the invocation
RunCachesShared(held) == held

\* the four caches are dictionaries local to the invocation (loader.py
\* 396-400): created empty whatever an earlier invocation held, and gone when
\* the invocation ends
RunCaches(held) == EmptyCache

InitPopulate ==
    /\ db \in InitStores
    /\ tx = db
    /\ pending = <<>>
    /\ cache = EmptyCache
    /\ pc = "idle"
    /\ input = <<>>
    /\ i = 1
    /\ j = 1
    /\ group = NULL
    /\ specialty = NULL
    /\ runs = 0
    /\ outcome = "none"
    /\ error = "none"
    /\ sessionCalls = <<>>
    /\ added = <<>>
    /\ dbBefore = db
    /\ rerun = FALSE
    /\ prevOutcome = "none"
    /\ stage = "idle"
    /\ stages = <<>>
    /\ updates = 0
    /\ data_url = <<>>
    /\ appArg = FALSE
    /\ cacheBefore = {}
    /\ archive_filename = <<>>
    /\ xml_files = <<>>
    /\ fileIdx = 1
    /\ certIdx = 0
    /\ tree = <<>>
    /\ organizations_in_file = <<>>
    /\ all_organizations_data = <<>>
    /\ origins = <<>>

\* ------------------------------------------------- _populate_db, pass 1
\* the mutation of AfterFlush in which a flush commits
AfterFlushCommits(committed, flushed) == flushed

\* session.flush() (line 453) and the autoflush of a query send the pending
\* rows to the database inside the transaction: the committed store stays
AfterFlush(committed, flushed) == committed

\* a step inside the with-block: the session and the locals move on
Continue(ntx, npending, ncache, npc, ni, nj, ngroup, nspecialty, nadded) ==
    /\ tx' = ntx
    /\ db' = AfterFlush(db, ntx)
    /\ pending' = npending
    /\ cache' = ncache
    /\ pc' = npc
    /\ i' = ni
    /\ j' = nj
    /\ group' = ngroup
    /\ specialty' = nspecialty
    /\ added' = nadded
    /\ UNCHANGED <<input, runs, outcome, error, sessionCalls, dbBefore, rerun,
                   prevOutcome, universe>>
    /\ UNCHANGED runVars

\* the invocation ends: the locals and the caches go out of scope
Finish(ndb, out, err, calls, nadded) ==
    /\ db' = ndb
    /\ tx' = ndb
    /\ pending' = <<>>
    /\ cache' = RunCaches(cache)
    /\ pc' = "idle"
    /\ i' = 1
    /\ j' = 1
    /\ group' = NULL
    /\ specialty' = NULL
    /\ outcome' = out
    /\ error' = err
    /\ sessionCalls' = calls
    /\ added' = nadded
    /\ UNCHANGED <<input, runs, dbBefore, rerun, prevOutcome, universe>>
    /\ UNCHANGED runVars

\* a rollback that leaves an empty database
RollbackEmpties(committed) == EmptyStore

\* a rollback that keeps the organizations the transaction had flushed
RollbackKeepsOrganizations(committed) ==
    [committed EXCEPT !.educational_organization = tx.educational_organization]

\* a rollback that keeps what the transaction had flushed
RollbackKeepsFlushed(committed) == tx

\* session.rollback(): everything flushed or pending in the transaction is gone
Rollback(committed) == committed

\* session_scope, except branch (loader.py 119-122): rollback, then re-raise
Raise(nadded, err) ==
    Finish(Rollback(db), "raised", err, Append(sessionCalls, "rollback"), nadded)

\* what a failing database call raises: the database is unreachable
\* (OperationalError) or rejects a row (IntegrityError)
ErrorOf(fault) == IF fault THEN "OperationalError" ELSE "IntegrityError"

\* the with-statement of _populate_db is entered (loader.py 389-400)
Enter(inp, app, same) ==
    /\ pc = "idle"
    /\ input' = inp
    /\ rerun' = same
    /\ prevOutcome' = outcome
    /\ dbBefore' = db
    /\ added' = <<>>
    /\ sessionCalls' = <<>>
    /\ tx' = db
    /\ pending' = <<>>
    /\ cache' = RunCaches(cache)
    /\ i' = 1
    /\ j' = 1
    /\ group' = NULL
    /\ specialty' = NULL
    /\ outcome' = IF inp = <<>> THEN "nothing"
                  ELSE IF ~app THEN "no_context"
                  ELSE "running"
    /\ error' = IF inp # <<>> /\ ~app THEN "RuntimeError" ELSE "none"
    /\ pc' = IF inp # <<>> /\ app THEN "pass1" ELSE "idle"
    /\ UNCHANGED <<db, universe>>

\* what a direct call of _populate_db leaves alone
callFrame == <<stage, stages, updates, data_url, cacheBefore, files, archive_filename,
               xml_files, fileIdx, certIdx, tree, organizations_in_file,
               all_organizations_data, origins>>

\* no run_update is under way
Quiet == stage \in {"idle", "STOP", "DONE", "RAISED"}

\* _populate_db(organizations_data, app) is called with some list of records
StartPopulate ==
    /\ Quiet
    /\ runs < MaxRuns
    /\ runs' = runs + 1
    /\ \E inp \in ListsUpTo(universe, MaxRecs), app \in BOOLEAN :
          /\ Enter(inp, app, FALSE)
          /\ appArg' = app
    /\ UNCHANGED callFrame

\* _populate_db is called again with the list of the invocation before, which
\* was committed or rolled back
Rerun ==
    /\ Quiet
    /\ runs > 0
    /\ runs < MaxRuns
    /\ runs' = runs + 1
    /\ outcome \in {"committed", "raised", "aborted"}
    /\ Enter(input, TRUE, TRUE)
    /\ appArg' = TRUE
    /\ UNCHANGED callFrame

RegionObj(name) == [kind |-> "region", name |-> name]

OrgObj(org_data, region) ==
    [kind |-> "educational_organization",
     full_name |-> org_data.full_name, short_name |-> org_data.short_name,
     ogrn |-> org_data.ogrn, inn |-> org_data.inn, address |-> org_data.address,
     region |-> region]

\* the mutation of RegionNameFor that asks the address first
RegionNameForAddressFirst(org_data) ==
    LET region_name_from_addr == ExtractRegionFromAddress(org_data.address)
    IN  IF Truthy(region_name_from_addr) THEN region_name_from_addr
        ELSE IF Truthy(org_data.region_name)
        THEN Capitalize(Strip(org_data.region_name))
        ELSE NULL

\* the name of the region of a new organization (loader.py 419-436): the
\* normalized RegionName if it is set, else what the address gives, else NULL
RegionNameFor(org_data) ==
    IF Truthy(org_data.region_name)
    THEN Capitalize(Strip(org_data.region_name))
    ELSE LET region_name_from_addr == ExtractRegionFromAddress(org_data.address)
         IN  IF Truthy(region_name_from_addr) THEN region_name_from_addr ELSE NULL

\* the mutation of Reuse that brings the name of the found row up to date
ReuseUpdatesName(s, org_data) ==
    [s EXCEPT !.educational_organization =
        {IF r.ogrn = org_data.ogrn THEN [r EXCEPT !.full_name = org_data.full_name]
         ELSE r : r \in @}]

\* the organization found by OGRN is taken as it is: the update of its fields
\* is a TODO (lines 454-458)
Reuse(s, org_data) == s

AfterPass1(ni) == IF ni > Len(input) THEN "flush1" ELSE "pass1"

\* one iteration of the first loop (loader.py 404-458)
Pass1Record ==
    /\ pc = "pass1"
    /\ \E fault \in BOOLEAN :
        LET org_data == input[i]
            ogrn == org_data.ogrn
        IN  IF ~Truthy(ogrn) \/ ogrn \in cache.organizations
            THEN /\ ~fault
                 /\ Continue(tx, pending, cache, AfterPass1(i + 1), i + 1, j,
                             group, specialty, added)
            ELSE
            LET q == Flush(tx, pending)
                withOrg == [cache EXCEPT !.organizations = @ \cup {ogrn}]
            IN  IF fault \/ ~q.ok THEN Raise(added, ErrorOf(fault))
                ELSE IF FilterBy(q.store.educational_organization, "ogrn", ogrn) # {}
                THEN Continue(Reuse(q.store, org_data), <<>>, withOrg,
                              AfterPass1(i + 1), i + 1, j, group, specialty, added)
                ELSE
                LET name == RegionNameFor(org_data)
                    lookup == name # NULL /\ name \notin cache.regions
                    g == IF lookup
                         THEN GetOrCreate(q.store, <<>>, RegionObj(name), "name")
                         ELSE [ok |-> TRUE, store |-> q.store, pending |-> <<>>,
                               created |-> FALSE]
                    organization == OrgObj(org_data, name)
                    f == Flush(g.store, Append(g.pending, organization))
                    ncache == [withOrg EXCEPT !.regions =
                                  IF name = NULL THEN @ ELSE @ \cup {name}]
                    nadded == added
                              \o (IF g.created THEN <<[kind |-> "region", key |-> name]>>
                                  ELSE <<>>)
                              \o <<[kind |-> "educational_organization", key |-> ogrn]>>
                IN  IF ~g.ok \/ ~f.ok THEN Raise(nadded, ErrorOf(fault))
                    ELSE Continue(f.store, <<>>, ncache, AfterPass1(i + 1), i + 1, j,
                                  group, specialty, nadded)

\* the flush after the first loop (loader.py 461-467): on failure the session is
\* rolled back and the function returns, so session_scope then commits
Flush1 ==
    /\ pc = "flush1"
    /\ \E fault \in BOOLEAN :
        LET f == Flush(tx, pending)
        IN  IF fault \/ ~f.ok
            THEN Finish(Rollback(db), "aborted", ErrorOf(fault),
                        sessionCalls \o <<"rollback", "commit">>, added)
            ELSE Continue(f.store, <<>>, cache, "pass2", 1, j, group, specialty, added)

\* ------------------------------------------------- _populate_db, pass 2
\* where the second loop goes after program nj - 1 of record ni is done
AfterProgram(ni, nj) ==
    IF nj <= Len(input[ni].programs) THEN [pc |-> "prog", i |-> ni, j |-> nj]
    ELSE IF ni + 1 > Len(input) THEN [pc |-> "commit", i |-> ni + 1, j |-> 1]
    ELSE [pc |-> "pass2", i |-> ni + 1, j |-> 1]

\* the mutation of SetParent that keeps the parent an organization has
SetParentOnce(s, ogrn, parent_id) ==
    [s EXCEPT !.educational_organization =
        {IF r.ogrn = ogrn /\ r.parent_id = NoId
         THEN [r EXCEPT !.parent_id = parent_id] ELSE r : r \in @}]

\* organization.parent_id = parent_organization.id (line 485)
SetParent(s, ogrn, parent_id) ==
    [s EXCEPT !.educational_organization =
        {IF r.ogrn = ogrn THEN [r EXCEPT !.parent_id = parent_id] ELSE r : r \in @}]

\* a parent lookup that sees only organizations committed before the run
ParentIdCommitted(s, parent_ogrn) ==
    IdOf(db.educational_organization, "ogrn", parent_ogrn)

\* the parent of a branch (loader.py 482-483): the cached organization, else
\* the one the query finds; NoId when there is none
ParentId(s, parent_ogrn) ==
    IdOf(s.educational_organization, "ogrn", parent_ogrn)

\* the mutation of WithParent that takes the parent away when none is found
WithParentOrNone(s, ogrn, parent_id) == SetParent(s, ogrn, parent_id)

\* lines 484-488: the parent is set if one was found, else only a warning is
\* logged
WithParent(s, ogrn, parent_id) ==
    IF parent_id # NoId THEN SetParent(s, ogrn, parent_id) ELSE s

\* head of one iteration of the second loop (loader.py 471-488)
Pass2Record ==
    /\ pc = "pass2"
    /\ \E fault \in BOOLEAN :
        LET org_data == input[i]
            ogrn == org_data.ogrn
            nxt == AfterProgram(i, 1)
        IN  IF ~Truthy(ogrn) \/ ogrn \notin cache.organizations
            THEN /\ ~fault
                 /\ Continue(tx, pending, cache,
                             IF i + 1 > Len(input) THEN "commit" ELSE "pass2",
                             i + 1, 1, group, specialty, added)
            ELSE IF ~(org_data.is_branch /\ Truthy(org_data.parent_ogrn))
            THEN /\ ~fault
                 /\ Continue(tx, pending, cache, nxt.pc, nxt.i, nxt.j,
                             group, specialty, added)
            ELSE IF org_data.parent_ogrn \in cache.organizations
            THEN /\ ~fault
                 /\ Continue(SetParent(tx, ogrn,
                                       ParentId(tx, org_data.parent_ogrn)),
                             pending, cache, nxt.pc, nxt.i, nxt.j,
                             group, specialty, added)
            ELSE
            LET q == Flush(tx, pending)
                parent_id == ParentId(q.store, org_data.parent_ogrn)
            IN  IF fault \/ ~q.ok THEN Raise(added, ErrorOf(fault))
                ELSE Continue(WithParent(q.store, ogrn, parent_id),
                              <<>>, cache, nxt.pc, nxt.i, nxt.j,
                              group, specialty, added)

\* the mutation of SkipProgram that leaves the loop over the programs of the
\* record (break in place of continue)
SkipProgramBreaks ==
    /\ pc = "prog"
    /\ LET prog_data == input[i].programs[j]
           nxt == AfterProgram(i, Len(input[i].programs) + 1)
       IN  /\ ~Truthy(prog_data.specialty_code) \/ ~Truthy(prog_data.ugs_code)
           /\ Continue(tx, pending, cache, nxt.pc, nxt.i, nxt.j,
                       group, specialty, added)

\* a program without specialty code or group code is passed over (492-496)
SkipProgram ==
    /\ pc = "prog"
    /\ LET prog_data == input[i].programs[j]
           nxt == AfterProgram(i, j + 1)
       IN  /\ ~Truthy(prog_data.specialty_code) \/ ~Truthy(prog_data.ugs_code)
           /\ Continue(tx, pending, cache, nxt.pc, nxt.i, nxt.j,
                       group, specialty, added)

GroupObj(prog_data) ==
    [kind |-> "specialty_group", code |-> prog_data.ugs_code,
     name |-> prog_data.ugs_name]

\* get or create the SpecialtyGroup of the program (loader.py 498-505)
ResolveGroup ==
    /\ pc = "prog"
    /\ \E fault \in BOOLEAN :
        LET prog_data == input[i].programs[j]
            ugs_code == prog_data.ugs_code
        IN  /\ Truthy(prog_data.specialty_code) /\ Truthy(ugs_code)
            /\ IF ugs_code \in cache.specialty_groups
               THEN /\ ~fault
                    /\ Continue(tx, pending, cache, "specialty", i, j,
                                ugs_code, specialty, added)
               ELSE
               LET g == GetOrCreate(tx, pending, GroupObj(prog_data), "code")
               IN  IF fault \/ ~g.ok THEN Raise(added, ErrorOf(fault))
                   ELSE Continue(g.store, g.pending,
                                 [cache EXCEPT !.specialty_groups = @ \cup {ugs_code}],
                                 "specialty", i, j, ugs_code, specialty,
                                 IF g.created
                                 THEN Append(added, [kind |-> "specialty_group",
                                                     key |-> ugs_code])
                                 ELSE added)

\* group.id as the call of line 512-515 evaluates it: the arguments are built
\* before _get_or_create runs its query, so a group that is still pending has
\* no id yet
GroupIdArgument(s, code) == IdOf(s.specialty_group, "code", code)

SpecialtyObj(prog_data, group_id) ==
    [kind |-> "specialty", code |-> prog_data.specialty_code,
     name |-> prog_data.specialty_name, group_id |-> group_id]

\* get or create the Specialty of the program (loader.py 507-516)
ResolveSpecialty ==
    /\ pc = "specialty"
    /\ \E fault \in BOOLEAN :
        LET prog_data == input[i].programs[j]
            specialty_code == prog_data.specialty_code
        IN  IF specialty_code \in cache.specialties
            THEN /\ ~fault
                 /\ Continue(tx, pending, cache, "program", i, j,
                             group, specialty_code, added)
            ELSE
            LET obj == SpecialtyObj(prog_data, GroupIdArgument(tx, group))
                g == GetOrCreate(tx, pending, obj, "code")
            IN  IF fault \/ ~g.ok THEN Raise(added, ErrorOf(fault))
                ELSE Continue(g.store, g.pending,
                              [cache EXCEPT !.specialties = @ \cup {specialty_code}],
                              "program", i, j, group, specialty_code,
                              IF g.created
                              THEN Append(added, [kind |-> "specialty",
                                                  key |-> specialty_code])
                              ELSE added)

\* a duplicate check that never finds the pair
ExistingProgramNever(s, organization_id, specialty_id) == {}

\* a duplicate check that reads the committed rows only (no autoflush)
ExistingProgramCommitted(s, organization_id, specialty_id) ==
    {r \in db.educational_program :
        r.organization_id = organization_id /\ r.specialty_id = specialty_id}

\* the rows the duplicate check of lines 520-523 sees: the filter values are
\* taken before the query autoflushes (a pending specialty has id None, and
\* filter_by(specialty_id=None) matches no row of a NOT NULL column)
ExistingProgram(s, organization_id, specialty_id) ==
    {r \in s.educational_program :
        r.organization_id = organization_id /\ r.specialty_id = specialty_id}

\* create the EducationalProgram unless the pair exists (loader.py 518-534)
ResolveProgram ==
    /\ pc = "program"
    /\ \E fault \in BOOLEAN :
        LET ogrn == input[i].ogrn
            organization_id == IdOf(tx.educational_organization, "ogrn", ogrn)
            filter_id == IdOf(tx.specialty, "code", specialty)
            q == Flush(tx, pending)
            specialty_id == IdOf(q.store.specialty, "code", specialty)
            nxt == AfterProgram(i, j + 1)
        IN  IF fault \/ ~q.ok THEN Raise(added, ErrorOf(fault))
            ELSE IF ExistingProgram(q.store, organization_id, filter_id) # {}
            THEN Continue(q.store, <<>>, cache, nxt.pc, nxt.i, nxt.j,
                          group, specialty, added)
            ELSE Continue(q.store,
                          <<[kind |-> "educational_program",
                             organization_id |-> organization_id,
                             specialty_id |-> specialty_id]>>,
                          cache, nxt.pc, nxt.i, nxt.j, group, specialty,
                          Append(added, [kind |-> "educational_program",
                                         key |-> <<ogrn, specialty>>]))

\* leaving the with-block: session.commit() flushes and commits (loader.py 118)
Commit ==
    /\ pc = "commit"
    /\ \E fault \in BOOLEAN :
        LET f == Flush(tx, pending)
        IN  IF fault \/ ~f.ok THEN Raise(added, ErrorOf(fault))
            ELSE Finish(f.store, "committed", "none", Append(sessionCalls, "commit"), added)

\* ---------------------------------------------------- _parse_xml_files
\* DataLoader._get_text: findtext gives None for a missing element and '' for
\* an empty one; both give the default, anything else is stripped
GetText(text, default) == IF Truthy(text) THEN Strip(text) ELSE default

\* the local variable is_accredited of line 337
is_accredited(program_elem) == GetText(program_elem.IsAccredited, <<"1">>) = <<"0">>

\* prog_data of lines 341-347
ProgData(program_elem) ==
    [specialty_code |-> GetText(program_elem.ProgrammCode, <<>>),
     specialty_name |-> GetText(program_elem.ProgrammName, <<>>),
     ugs_code |-> GetText(program_elem.UGSCode, <<>>),
     ugs_name |-> GetText(program_elem.UGSName, <<>>)]

\* the EducationalProgram elements of all Supplement elements, in document order
RECURSIVE Flatten(_)
Flatten(supplements) ==
    IF supplements = <<>> THEN <<>>
    ELSE Head(supplements) \o Flatten(Tail(supplements))

\* the loop of lines 335-352 over the program elements
RECURSIVE ProgramsOf(_)
ProgramsOf(elems) ==
    IF elems = <<>> THEN <<>>
    ELSE LET program_elem == Head(elems)
             rest == ProgramsOf(Tail(elems))
         IN  IF ~is_accredited(program_elem) THEN rest
             ELSE IF Truthy(ProgData(program_elem).specialty_code)
             THEN <<ProgData(program_elem)>> \o rest
             ELSE rest

\* the mutation of OrgData that reads the certificate-level OGRN for every
\* organization
OrgDataParentAlways(cert_elem) ==
    LET org_elem == cert_elem.org
    IN  [full_name |-> GetText(org_elem.FullName, <<>>),
         short_name |-> GetText(org_elem.ShortName, <<>>),
         ogrn |-> GetText(org_elem.OGRN, <<>>),
         inn |-> GetText(org_elem.INN, <<>>),
         address |-> GetText(org_elem.PostAddress, <<>>),
         is_branch |-> GetText(org_elem.IsBranch, <<"0">>) = <<"1">>,
         parent_ogrn |-> GetText(cert_elem.EduOrgOGRN, <<>>),
         region_name |-> GetText(org_elem.RegionName, <<>>),
         programs |-> ProgramsOf(Flatten(cert_elem.Supplements))]

\* org_data of lines 305-316, with the programs of lines 330-352
OrgData(cert_elem) ==
    LET org_elem == cert_elem.org
        is_branch == GetText(org_elem.IsBranch, <<"0">>) = <<"1">>
    IN  [full_name |-> GetText(org_elem.FullName, <<>>),
         short_name |-> GetText(org_elem.ShortName, <<>>),
         ogrn |-> GetText(org_elem.OGRN, <<>>),
         inn |-> GetText(org_elem.INN, <<>>),
         address |-> GetText(org_elem.PostAddress, <<>>),
         is_branch |-> is_branch,
         parent_ogrn |-> IF is_branch THEN GetText(cert_elem.EduOrgOGRN, <<>>)
                         ELSE NULL,
         region_name |-> GetText(org_elem.RegionName, <<>>),
         programs |-> ProgramsOf(Flatten(cert_elem.Supplements))]

\* the mutation of CertSkipped that passes over every certificate
CertSkippedAll(cert_elem) == cert_elem = cert_elem

\* the mutation of CertSkipped that lets a certificate without OGRN through
CertSkippedOrgOnly(cert_elem) == ~cert_elem.org.present

\* a certificate without organization element or without OGRN is passed over
\* (lines 299-303 and 318-327)
CertSkipped(cert_elem) ==
    \/ ~cert_elem.org.present
    \/ ~Truthy(OrgData(cert_elem).ogrn)

\* --------------------------------------------- documents of the examples
ProgElem(acc, code, ugs) ==
    [IsAccredited |-> acc, ProgrammCode |-> code, ProgrammName |-> code,
     UGSCode |-> ugs, UGSName |-> ugs]

OrgElem(present, ogrn, inn, is_branch, region) ==
    [present |-> present, FullName |-> NameA, ShortName |-> NULL, OGRN |-> ogrn,
     INN |-> inn, PostAddress |-> NULL, IsBranch |-> is_branch,
     RegionName |-> region]

CertElem(org, parent, supplements) ==
    [org |-> org, EduOrgOGRN |-> parent, Supplements |-> supplements]

\* a head organization: an accredited program and one marked not accredited
CertHead ==
    CertElem(OrgElem(TRUE, <<" ","1">>, I1, NULL, <<"r">>), O9,
             << <<ProgElem(<<"1">>, S1, G1), ProgElem(<<"0">>, S2, G1)>> >>)
\* its branch: a program without IsAccredited, one without code
CertBranch ==
    CertElem(OrgElem(TRUE, O2, I2, <<"1">>, NULL), O1,
             << <<ProgElem(NULL, S1, G1)>>, <<ProgElem(<<"0">>, <<>>, G1)>> >>)
\* no ActualEducationOrganization element
CertNoOrg ==
    CertElem(OrgElem(FALSE, NULL, NULL, NULL, NULL), O1,
             << <<ProgElem(<<"0">>, S1, G1)>> >>)
\* an organization whose OGRN element holds only blanks
CertNoOgrn ==
    CertElem(OrgElem(TRUE, <<" ">>, NULL, NULL, <<"q">>), NULL,
             << <<ProgElem(<<"0">>, S1, G1)>> >>)

\* a branch whose flag is written with a blank, without programs
CertAffiliate ==
    CertElem(OrgElem(TRUE, O2, I2, <<" ","1">>, NULL), O1, <<>>)
\* an organization flagged as no branch under a certificate-level OGRN
CertNotBranch ==
    CertElem(OrgElem(TRUE, O1, I1, <<"0">>, NULL), O2, <<>>)

\* a file of the cache directory: an XML document (its certificates, and
\* whether the parser raises after them), a ZIP archive (its entries) or
\* something else
XmlFile(name, certs, broken) ==
    [name |-> name, kind |-> "xml", certs |-> certs, broken |-> broken,
     entries |-> {}]
ZipFile(name, entries) ==
    [name |-> name, kind |-> "zip", certs |-> <<>>, broken |-> TRUE,
     entries |-> entries]
\* a ZIP archive with a damaged member; entries are the members before it
BadZipFile(name, entries) ==
    [name |-> name, kind |-> "badzip", certs |-> <<>>, broken |-> TRUE,
     entries |-> entries]
Garbage(name) ==
    [name |-> name, kind |-> "garbage", certs |-> <<>>, broken |-> TRUE,
     entries |-> {}]

NameAXml == <<"a",".","x","m","l">>
NameBXml == <<"b",".","x","m","l">>

\* what the server may send: archives of one or two documents, a bare
\* document, or something that is no archive
Payloads ==
    { ZipFile(<<>>, {XmlFile(NameAXml, <<CertHead, CertBranch>>, FALSE)}),
      ZipFile(<<>>, {XmlFile(NameAXml, <<CertNoOgrn, CertHead>>, FALSE),
                     XmlFile(NameBXml, <<CertBranch>>, TRUE)}),
      ZipFile(<<>>, {XmlFile(NameBXml, <<CertNoOrg>>, FALSE)}),
      BadZipFile(<<>>, {XmlFile(NameBXml, <<CertHead>>, FALSE)}),
      ZipFile(<<>>, {}),
      XmlFile(<<>>, <<CertHead>>, TRUE),
      XmlFile(<<>>, <<CertBranch>>, FALSE),
      XmlFile(<<>>, <<CertAffiliate, CertNotBranch>>, FALSE),
      Garbage(<<>>) }

\* a document left in the cache directory by an earlier run
StaleFiles == {XmlFile(NameAXml, <<CertBranch>>, FALSE)}

\* ------------------------------------------------------------- run_update
Sentinel == <<"U","R","L","_","K","_","D","A","N","N","Y","M","_",
              "R","O","S","O","B","R","N","A","D","Z","O","R","A">>
DefaultArchiveName == <<"d","a","t","a",".","z","i","p">>
ZipSuffix == <<".","z","i","p">>
XmlSuffix == <<".","x","m","l">>

\* the configured URLs (their path; urlparse gives nothing else for them)
Urls ==
    { <<>>, Sentinel,
      <<"/","d",".","z","i","p">>, <<"/","D",".","Z","I","P">>,
      <<"/","d",".","x","m","l">>, <<"/","d","/">> }

EndsWith(s, suffix) ==
    Len(s) >= Len(suffix) /\ SubSeq(s, Len(s) - Len(suffix) + 1, Len(s)) = suffix

\* os.path.basename: what follows the last slash
Basename(path) ==
    LET slashes == {k \in 1..Len(path) : path[k] = "/"}
    IN  IF slashes = {} THEN path
        ELSE SubSeq(path, MaxOf(slashes) + 1, Len(path))

\* the mutation of CheckForUpdates that does not know the placeholder
CheckForUpdatesAnyText(url) == Truthy(url)

\* DataLoader._check_for_updates
CheckForUpdates(url) == ~(~Truthy(url) \/ url = Sentinel)

\* DataLoader._get_filename_from_url
GetFilenameFromUrl(url) ==
    IF Basename(url) = <<>> THEN DefaultArchiveName ELSE Basename(url)

\* writing a file replaces the file of that name
Put(dir, file) == {x \in dir : x.name # file.name} \cup {file}
PutAll(dir, new) == {x \in dir : \A y \in new : y.name # x.name} \cup new

\* glob.glob(cache_path/*.xml)
Glob(dir) == {x \in dir : EndsWith(x.name, XmlSuffix)}

\* the lists that enumerate a set of files (the order of glob is not fixed)
RECURSIVE Orderings(_)
Orderings(S) ==
    IF S = {} THEN {<<>>}
    ELSE UNION {{<<x>> \o l : l \in Orderings(S \ {x})} : x \in S}

Log(name, ok) == Append(stages, [stage |-> name, ok |-> ok])

\* run_update(app) is called
StartRunUpdate ==
    /\ Quiet /\ pc = "idle"
    /\ runs < MaxRuns /\ updates < MaxUpdates
    /\ runs' = runs + 1
    /\ updates' = updates + 1
    /\ \E url \in Urls, app \in BOOLEAN :
          /\ data_url' = url
          /\ appArg' = app
    /\ stage' = "check"
    /\ stages' = <<>>
    /\ cacheBefore' = files
    /\ archive_filename' = <<>>
    /\ xml_files' = <<>>
    /\ fileIdx' = 1
    /\ certIdx' = 0
    /\ tree' = <<>>
    /\ organizations_in_file' = <<>>
    /\ all_organizations_data' = <<>>
    /\ origins' = <<>>
    /\ input' = <<>>
    /\ outcome' = "none"
    /\ error' = "none"
    /\ prevOutcome' = outcome
    /\ rerun' = FALSE
    /\ sessionCalls' = <<>>
    /\ added' = <<>>
    /\ dbBefore' = db
    /\ UNCHANGED <<db, tx, pending, cache, pc, i, j, group, specialty, universe,
                   files>>

popFrame == <<db, tx, pending, cache, pc, input, i, j, group, specialty, runs,
              outcome, error, sessionCalls, added, dbBefore, rerun, prevOutcome,
              universe>>
parseFrame == <<xml_files, fileIdx, certIdx, tree, organizations_in_file,
                all_organizations_data, origins>>

\* lines 556-566: the check, then the name of the archive
Check ==
    /\ stage = "check"
    /\ stages' = Log("CHECK_NEEDED", CheckForUpdates(data_url))
    /\ IF CheckForUpdates(data_url)
       THEN /\ archive_filename' = GetFilenameFromUrl(data_url)
            /\ stage' = "download"
       ELSE /\ archive_filename' = archive_filename
            /\ stage' = "STOP"
    /\ UNCHANGED <<popFrame, parseFrame, data_url, appArg, updates, cacheBefore, files>>

IsZipName(name) == EndsWith(Lower(name), ZipSuffix)

\* the mutation of AfterDownload that unpacks whatever the name of the file
AfterDownloadAlwaysUnpacks(ok, name) == IF ~ok THEN "STOP" ELSE "purge"

\* the mutation of AfterDownload that only skips the extraction after a
\* failed download
AfterDownloadFailureToParse(ok, name) ==
    IF ok /\ IsZipName(name) THEN "purge" ELSE "parse"

\* the mutation of AfterDownload that goes on after a failed download
AfterDownloadIgnoresFailure(ok, name) ==
    IF IsZipName(name) THEN "purge" ELSE "parse"

\* where run_update goes once _download_data has returned (lines 569-573, 596)
AfterDownload(ok, name) ==
    IF ~ok THEN "STOP"
    ELSE IF IsZipName(name) THEN "purge" ELSE "parse"

\* lines 569-574 with _download_data: the payload is written to the archive
\* path, or the download fails (leaving nothing or a truncated file); both
\* except clauses of _download_data return False
Download ==
    /\ stage = "download"
    /\ \/ \E payload \in Payloads :
            /\ files' = Put(files, [payload EXCEPT !.name = archive_filename])
            /\ stages' = Log("DOWNLOAD", TRUE)
            /\ stage' = AfterDownload(TRUE, archive_filename)
       \/ \E truncated \in BOOLEAN :
            /\ files' = IF truncated THEN Put(files, Garbage(archive_filename))
                        ELSE files
            /\ stages' = Log("DOWNLOAD", FALSE)
            /\ stage' = AfterDownload(FALSE, archive_filename)
    /\ UNCHANGED <<popFrame, parseFrame, data_url, appArg, updates, cacheBefore,
                   archive_filename>>

\* lines 577-583: the cached .xml files are removed; a removal may fail
PurgeStaleXml ==
    /\ stage = "purge"
    /\ \E kept \in SUBSET Glob(files) : files' = files \ (Glob(files) \ kept)
    /\ stages' = Log("PURGE_STALE_XML", TRUE)
    /\ stage' = "extract"
    /\ UNCHANGED <<popFrame, parseFrame, data_url, appArg, updates, cacheBefore,
                   archive_filename>>

\* the file at archive_path, if there is one
ArchiveFiles == {x \in files : x.name = archive_filename}

\* zipfile.is_zipfile: the file exists and ends with the directory record of a
\* ZIP; the members are not read
IsZipfile == \E x \in ArchiveFiles : x.kind \in {"zip", "badzip"}

\* the members extractall can write: for a damaged archive, those that come
\* before the damaged member
Extractable == UNION {x.entries : x \in ArchiveFiles}

\* the mutation of AfterExtract that goes on after a failed extraction
AfterExtractIgnoresFailure(ok) == "delete"

\* where run_update goes once _unpack_archive has returned (lines 586-590)
AfterExtract(ok) == IF ok THEN "delete" ELSE "STOP"

\* lines 586-588 with _unpack_archive: a file that is_zipfile refuses is not
\* opened; extractall writes the members one after the other and may fail on
\* the way, on a damaged member (BadZipFile) or on the disk, which leaves the
\* members already written
Extract ==
    /\ stage = "extract"
    /\ \/ /\ IsZipfile
          /\ \A x \in ArchiveFiles : x.kind = "zip"
          /\ files' = PutAll(files, Extractable)
          /\ stages' = Log("EXTRACT", TRUE)
          /\ stage' = AfterExtract(TRUE)
       \/ /\ IsZipfile
          /\ \E done \in SUBSET Extractable : files' = PutAll(files, done)
          /\ stages' = Log("EXTRACT", FALSE)
          /\ stage' = AfterExtract(FALSE)
       \/ /\ ~IsZipfile
          /\ files' = files
          /\ stages' = Log("EXTRACT", FALSE)
          /\ stage' = AfterExtract(FALSE)
    /\ UNCHANGED <<popFrame, parseFrame, data_url, appArg, updates, cacheBefore,
                   archive_filename>>

\* the mutation of AfterDelete that stops when the archive cannot be removed
AfterDeleteStopsOnFailure(removed) == IF removed THEN "parse" ELSE "STOP"

\* where run_update goes after os.remove(archive_path): the OSError is caught
\* and logged (lines 593-594), so to the parser either way
AfterDelete(removed) == "parse"

\* lines 590-594: the archive is removed; a failure is only logged
DeleteArchive ==
    /\ stage = "delete"
    /\ \E removed \in BOOLEAN :
          /\ files' = IF removed THEN {x \in files : x.name # archive_filename}
                      ELSE files
          /\ stages' = Log("DELETE_ARCHIVE", removed)
          /\ stage' = AfterDelete(removed)
    /\ UNCHANGED <<popFrame, parseFrame, data_url, appArg, updates, cacheBefore,
                   archive_filename>>

\* lines 277-284: the .xml files of the cache directory are listed
ParseStart ==
    /\ stage = "parse"
    /\ \E order \in Orderings(Glob(files)) : xml_files' = order
    /\ fileIdx' = 1
    /\ certIdx' = 0
    /\ tree' = <<>>
    /\ organizations_in_file' = <<>>
    /\ all_organizations_data' = <<>>
    /\ origins' = <<>>
    /\ IF Glob(files) = {}
       THEN /\ stage' = "reconcile"
            /\ stages' = Log("PARSE", FALSE)
       ELSE /\ stage' = "parsing"
            /\ stages' = stages
    /\ UNCHANGED <<popFrame, data_url, appArg, updates, cacheBefore, archive_filename, files>>

\* the way an iteration takes through lines 298-359
PathOf(cert_elem) ==
    IF ~cert_elem.org.present THEN "no_org"
    ELSE IF ~Truthy(OrgData(cert_elem).ogrn) THEN "no_ogrn"
    ELSE "extracted"

\* the mutation of Release that frees the tree for extracted records only
ReleaseExtractedOnly(siblings, path) ==
    IF path = "extracted"
    THEN <<[siblings[Len(siblings)] EXCEPT !.cleared = TRUE]>>
    ELSE siblings

\* cert_elem.clear(), then del cert_elem.getparent()[0] while cert_elem has a
\* previous sibling (lines 301-302, 323-326, 357-359): of the elements up to
\* cert_elem, the last of siblings, cert_elem alone is left, without content
Release(siblings, path) ==
    <<[siblings[Len(siblings)] EXCEPT !.cleared = TRUE]>>

\* one iteration of the loop over the Certificate elements (lines 296-359):
\* iterparse hands over the element that has just been completed, which
\* follows in the tree the elements handed over before and still held
ParseCertificate ==
    /\ stage = "parsing"
    /\ certIdx < Len(xml_files[fileIdx].certs)
    /\ LET cert_elem == xml_files[fileIdx].certs[certIdx + 1]
           siblings == Append(tree, [cert |-> certIdx + 1, cleared |-> FALSE])
       IN  /\ tree' = Release(siblings, PathOf(cert_elem))
           /\ organizations_in_file' =
                IF CertSkipped(cert_elem) THEN organizations_in_file
                ELSE Append(organizations_in_file, OrgData(cert_elem))
           /\ origins' =
                IF CertSkipped(cert_elem) THEN origins
                ELSE Append(origins, cert_elem)
    /\ certIdx' = certIdx + 1
    /\ UNCHANGED <<popFrame, stage, stages, data_url, appArg, updates, cacheBefore, archive_filename,
                   files, xml_files, fileIdx, all_organizations_data>>

\* the mutation of Salvaged that keeps the records read before the error
SalvagedKept(broken, in_file) == in_file

\* what a file contributes to the result: its records (line 372), or nothing
\* when the parser raised, since both except clauses continue with the next
\* file (lines 364-369) and so pass over line 372
Salvaged(broken, in_file) == IF broken THEN <<>> ELSE in_file

\* the end of a file (lines 361-372): its records join the result, unless the
\* parser raised, in which case the loop goes on to the next file without them
ParseFileEnd ==
    /\ stage = "parsing"
    /\ certIdx = Len(xml_files[fileIdx].certs)
    /\ LET kept == Salvaged(xml_files[fileIdx].broken, organizations_in_file)
           result == all_organizations_data \o kept
           norigins == SubSeq(origins, 1, Len(result))
       IN  /\ all_organizations_data' = result
           /\ origins' = norigins
           /\ IF fileIdx = Len(xml_files)
              THEN /\ stage' = "reconcile"
                   /\ stages' = Log("PARSE", result # <<>>)
              ELSE /\ stage' = "parsing"
                   /\ stages' = stages
    /\ organizations_in_file' = <<>>
    /\ fileIdx' = fileIdx + 1
    /\ certIdx' = 0
    /\ tree' = <<>>
    /\ UNCHANGED <<popFrame, data_url, appArg, updates, cacheBefore, archive_filename,
                   files, xml_files>>

\* the mutation of HasData that takes an empty result for data
HasDataAlways(parsed_data) == parsed_data = parsed_data

\* the truth value of the list parsed_data (line 605)
HasData(parsed_data) == parsed_data # <<>>

\* lines 604-608: _populate_db is called unless nothing was parsed
Reconcile ==
    /\ stage = "reconcile"
    /\ IF HasData(all_organizations_data)
       THEN /\ Enter(all_organizations_data, appArg, FALSE)
            /\ stages' = Log("RECONCILE", TRUE)
            /\ stage' = "reconciling"
       ELSE /\ stage' = "DONE"
            /\ stages' = stages
            /\ UNCHANGED <<db, tx, pending, cache, pc, input, i, j, group, specialty,
                           outcome, error, sessionCalls, added, dbBefore, rerun,
                           prevOutcome, universe>>
    /\ UNCHANGED <<runs, parseFrame, data_url, appArg, updates, cacheBefore, archive_filename, files>>

\* _populate_db has returned or raised: run_update ends the same way
ReconcileReturn ==
    /\ stage = "reconciling"
    /\ pc = "idle"
    /\ stage' = IF outcome \in {"raised", "no_context"} THEN "RAISED" ELSE "DONE"
    /\ UNCHANGED <<popFrame, parseFrame, stages, data_url, appArg, updates, cacheBefore,
                   archive_filename, files>>

Next ==
    \/ StartPopulate
    \/ Rerun
    \/ Pass1Record
    \/ Flush1
    \/ Pass2Record
    \/ SkipProgram
    \/ ResolveGroup
    \/ ResolveSpecialty
    \/ ResolveProgram
    \/ Commit

vars == <<popVars, runVars>>

\* the reconciliation engine alone, called with lists of RecordsCore
Init == InitPopulate /\ universe = RecordsCore /\ files = {}

Spec == Init /\ [][Next]_vars

\* the loader with both entry points: run_update over the cache directory,
\* and _populate_db called with lists of RecordsRun
RecordsRun ==
    { Rec(<<>>, NameA, <<>>, FALSE, NULL, <<"q">>, AddrQ, <<Prog(S1, G1)>>),
      Rec(O1, NameA, I1, FALSE, NULL, <<"r">>, <<>>, <<Prog(<<>>, G1), Prog(S1, G1)>>) }

InitRun ==
    /\ InitPopulate
    /\ universe = RecordsRun
    /\ files \in {{}, StaleFiles}

NextRun ==
    \/ StartRunUpdate
    \/ Check
    \/ Download
    \/ PurgeStaleXml
    \/ Extract
    \/ DeleteArchive
    \/ ParseStart
    \/ ParseCertificate
    \/ ParseFileEnd
    \/ Reconcile
    \/ ReconcileReturn
    \/ StartPopulate
    \/ Pass1Record
    \/ Flush1
    \/ Pass2Record
    \/ SkipProgram
    \/ ResolveGroup
    \/ ResolveSpecialty
    \/ ResolveProgram
    \/ Commit

SpecRun == InitRun /\ [][NextRun]_vars

\* run_update alone. Its steps are those of one sequential call: the
\* interpreter runs them one after the other and none of them waits, so a step
\* that can be taken is taken
OrchStep ==
    \/ Check
    \/ Download
    \/ PurgeStaleXml
    \/ Extract
    \/ DeleteArchive
    \/ ParseStart
    \/ ParseCertificate
    \/ ParseFileEnd
    \/ Reconcile
    \/ ReconcileReturn
    \/ Pass1Record
    \/ Flush1
    \/ Pass2Record
    \/ ResolveGroup
    \/ ResolveSpecialty
    \/ ResolveProgram
    \/ Commit

NextOrch == StartRunUpdate \/ OrchStep

SpecOrch == InitRun /\ [][NextOrch]_vars /\ WF_vars(OrchStep)

\* the reconciliation engine called with organizations that have no region
\* name and no program, over these addresses: none; a name without comma; a
\* name before a comma; a postal code before two parts; a spaced postal code
\* before one part; five digits before a part; a postal code before nothing;
\* a lone comma; a postal code before a known region in capitals; two known
\* regions in the order opposite to that of the list
Addresses ==
    { <<>>,
      <<"q">>,
      <<"Q","b"," ",","," ","x">>,
      AddrQ,
      <<" ","1","2","3","4","5","6"," ",",","Q","b">>,
      <<"1","2","3","4","5",",","q">>,
      <<"1","2","3","4","5","6",",">>,
      <<",">>,
      <<"1","2","3","4","5","6",","," ","G","."," ","M","O","S","K","V","A">>,
      <<"m","o","s","k","o","v","s","k","a","y","a"," ","o","b","l","a","s","t",
        ","," ","g","."," ","m","o","s","k","v","a">> }

RecordsAddr == {Rec(O1, NameA, I1, FALSE, NULL, <<>>, a, <<>>) : a \in Addresses}

InitAddr == InitPopulate /\ universe = RecordsAddr /\ files = {}

NextAddr ==
    \/ StartPopulate
    \/ Rerun
    \/ Pass1Record
    \/ Flush1
    \/ Pass2Record
    \/ Commit

SpecAddr == InitAddr /\ [][NextAddr]_vars

\* =============================================================== claims
Counts(s) == [t \in Tables |-> Cardinality(s[t])]

Ended == pc = "idle" /\ runs > 0

\* no two rows of a table share the table's natural key
NaturalKeysUnique(s) ==
    /\ \A a, b \in s.region : a.name = b.name => a = b
    /\ \A a, b \in s.specialty_group : a.code = b.code => a = b
    /\ \A a, b \in s.specialty : a.code = b.code => a = b
    /\ \A a, b \in s.educational_organization : a.ogrn = b.ogrn => a = b

ProgramPairsUnique(s) ==
    \A a, b \in s.educational_program :
        (a.organization_id = b.organization_id /\ a.specialty_id = b.specialty_id)
            => a = b

\* C1: when a committed run is followed by a committed run on the same list,
\* the row counts of the five tables after the second run equal those after
\* the first, and no two rows share a natural key or a program pair.
C1_Idempotent ==
    (Ended /\ rerun /\ prevOutcome = "committed" /\ outcome = "committed")
        => /\ Counts(db) = Counts(dbBefore)
           /\ NaturalKeysUnique(db)
           /\ ProgramPairsUnique(db)

\* a committed rerun over a store in which the first run left rows in all tables
C1_Witness ==
    /\ Ended /\ rerun /\ prevOutcome = "committed" /\ outcome = "committed"
    /\ \A t \in Tables : db[t] # {}
    /\ \E r \in db.educational_organization : r.parent_id # NoId

\* C2: a run that ended by an exception of pass 1 or pass 2 has rolled the
\* session back and left the committed store as it was before the run; and
\* until the commit nothing a run writes is in the committed store.
C2_Atomic ==
    /\ (Ended /\ outcome \in {"raised", "aborted"})
          => /\ db = dbBefore
             /\ \E k \in 1..Len(sessionCalls) : sessionCalls[k] = "rollback"
    /\ pc # "idle" => db = dbBefore

Kinds(l) == {l[k].kind : k \in 1..Len(l)}

\* a run that had added a region, an organization, a specialty and a program
\* and then failed
C2_Witness ==
    /\ Ended /\ outcome = "raised"
    /\ {"region", "educational_organization", "specialty", "educational_program"}
          \subseteq Kinds(added)

\* C3: the store, committed or seen by the transaction, never holds two
\* EducationalProgram rows with the same (organization_id, specialty_id).
C3_ProgramPairUnique == ProgramPairsUnique(db) /\ ProgramPairsUnique(tx)

\* a committed run whose input lists one program twice in a record, for a
\* specialty created in that run, the program row being in the store
C3_Witness ==
    /\ Ended /\ outcome = "committed"
    /\ "specialty" \in Kinds(added)
    /\ \E k \in 1..Len(input) :
          /\ Len(input[k].programs) = 2
          /\ input[k].programs[1] = input[k].programs[2]
          /\ \E p \in db.educational_program :
                /\ p.organization_id =
                      IdOf(db.educational_organization, "ogrn", input[k].ogrn)
                /\ p.specialty_id =
                      IdOf(db.specialty, "code", input[k].programs[1].specialty_code)

KeyedKinds == {"region", "specialty_group", "specialty", "educational_organization"}

KeyField(kind) ==
    CASE kind = "region" -> "name"
      [] kind = "specialty_group" -> "code"
      [] kind = "specialty" -> "code"
      [] kind = "educational_organization" -> "ogrn"

\* C4: in one run no natural key is given two new objects, none is given a
\* new object when a row with the key was in storage, and so no table ever
\* holds two rows with one natural key.
C4_AtMostOnePerKey ==
    /\ \A a, b \in 1..Len(added) :
          (a # b /\ added[a].kind \in KeyedKinds) => added[a] # added[b]
    /\ \A a \in 1..Len(added) :
          added[a].kind \in KeyedKinds =>
              FilterBy(dbBefore[added[a].kind], KeyField(added[a].kind),
                       added[a].key) = {}
    /\ NaturalKeysUnique(db) /\ NaturalKeysUnique(tx)

\* a committed run of two records with one OGRN and one region name, which
\* created the organization and the region
C4_Witness ==
    /\ Ended /\ outcome = "committed"
    /\ Len(input) = 2
    /\ input[1].ogrn = input[2].ogrn
    /\ Truthy(input[1].region_name)
    /\ {"region", "educational_organization"} \subseteq Kinds(added)

\* C5: every Specialty object the reconciliation adds carries the id of the
\* SpecialtyGroup of its program, never NULL.
C5_SpecialtyHasGroup ==
    \A k \in 1..Len(pending) :
        pending[k].kind = "specialty" => pending[k].group_id # NoId

\* the OGRN names an organization of the input or of the storage
Resolvable(ogrn) ==
    /\ Truthy(ogrn)
    /\ \/ \E m \in 1..Len(input) : input[m].ogrn = ogrn
       \/ FilterBy(dbBefore.educational_organization, "ogrn", ogrn) # {}

BranchRecord(k) ==
    Truthy(input[k].ogrn) /\ input[k].is_branch /\ Truthy(input[k].parent_ogrn)

\* record k is a branch record of B naming another organization A that exists
BranchOfOther(k) ==
    /\ BranchRecord(k)
    /\ input[k].parent_ogrn # input[k].ogrn
    /\ Resolvable(input[k].parent_ogrn)

\* the organization of record k has the organization of its parent OGRN as parent
Linked(k) ==
    First(FilterBy(db.educational_organization, "ogrn", input[k].ogrn)).parent_id
        = IdOf(db.educational_organization, "ogrn", input[k].parent_ogrn)

\* C7 as stated: after a committed run every branch record whose parent OGRN
\* names an organization of the input (before or after it) or of the storage
\* has that organization as parent.
C7_BranchLinkedAlways ==
    (Ended /\ outcome = "committed")
        => \A k \in 1..Len(input) :
              BranchOfOther(k) => Linked(k)

\* a later record of the same OGRN names another resolvable parent
Overridden(k) ==
    \E m \in (k + 1)..Len(input) :
        /\ input[m].ogrn = input[k].ogrn
        /\ BranchRecord(m) /\ Resolvable(input[m].parent_ogrn)
        /\ input[m].parent_ogrn # input[k].parent_ogrn

\* C7 amended: the same, for the branch records that no later record of the
\* same OGRN overrides with another resolvable parent OGRN.
C7_BranchLinked ==
    (Ended /\ outcome = "committed")
        => \A k \in 1..Len(input) :
              (BranchOfOther(k) /\ ~Overridden(k)) => Linked(k)

\* a committed run in which the branch came before its parent, both new
C7_Witness ==
    /\ Ended /\ outcome = "committed"
    /\ Len(input) = 2
    /\ BranchRecord(1)
    /\ input[1].parent_ogrn = input[2].ogrn
    /\ input[1].ogrn # input[2].ogrn
    /\ dbBefore.educational_organization = {}
    /\ Linked(1)

Unresolvable(k) == BranchRecord(k) /\ ~Resolvable(input[k].parent_ogrn)

\* the input gives no other cause of failure: every record has an OGRN and an
\* INN, and no two records share one
CleanInput ==
    /\ \A k \in 1..Len(input) : Truthy(input[k].ogrn) /\ Truthy(input[k].inn)
    /\ \A k, m \in 1..Len(input) :
          k # m => input[k].ogrn # input[m].ogrn /\ input[k].inn # input[m].inn

\* the programs of record k that carry both codes are in the store
ProgramsStored(s, k) ==
    \A n \in 1..Len(input[k].programs) :
        LET p == input[k].programs[n]
        IN  (Truthy(p.specialty_code) /\ Truthy(p.ugs_code)) =>
                \E e \in s.educational_program :
                    /\ e.organization_id =
                          IdOf(s.educational_organization, "ogrn", input[k].ogrn)
                    /\ e.specialty_id = IdOf(s.specialty, "code", p.specialty_code)

\* C8: a run given a branch record whose parent OGRN names no organization of
\* the input or of the storage completes and commits (the database being
\* reachable and the input giving no other cause of failure); the organization
\* the run created for it has no parent, and the programs of every record are
\* stored.
C8_UnresolvableParentCommits ==
    (/\ Ended
     /\ outcome \notin {"nothing", "no_context"}
     /\ error # "OperationalError"
     /\ CleanInput
     /\ \E k \in 1..Len(input) : Unresolvable(k))
        => /\ outcome = "committed"
           /\ \A k \in 1..Len(input) : ProgramsStored(db, k)
           /\ \A k \in 1..Len(input) :
                 (/\ Unresolvable(k)
                  /\ FilterBy(dbBefore.educational_organization, "ogrn",
                              input[k].ogrn) = {})
                    => First(FilterBy(db.educational_organization, "ogrn",
                                      input[k].ogrn)).parent_id = NoId

\* the records the parser has produced so far, aligned with origins
Parsed == all_organizations_data \o organizations_in_file

Range(seq) == {seq[k] : k \in 1..Len(seq)}

\* C6: Not-accredited exclusion in the parser: a program element whose
\* IsAccredited field explicitly marks it as not accredited ('0') does not
\* appear in the programs list of the organization record produced by
\* _parse_xml_files.
C6_NotAccreditedExcluded ==
    \A k \in 1..Len(origins) :
        \A program_elem \in Range(Flatten(origins[k].Supplements)) :
            (program_elem.IsAccredited # NULL
             /\ Strip(program_elem.IsAccredited) = <<"0">>)
            => ProgData(program_elem) \notin Range(Parsed[k].programs)

\* the only region name a record without OGRN carries in the inputs of SpecRun
RegionOfMissing == <<"Q">>

MissingOgrnRecord(k) == k \in 1..Len(input) /\ ~Truthy(input[k].ogrn)

\* a step of one of the two loops of _populate_db on a record without OGRN
MissingOgrnStep == pc \in {"pass1", "pass2"} /\ MissingOgrnRecord(i)

NoTraceOfMissing(s) ==
    /\ \A o \in s.educational_organization : Truthy(o.ogrn)
    /\ \A r \in s.region : r.name # RegionOfMissing

\* C9: Missing OGRN exclusion: the parser yields no record with an empty OGRN;
\* a record with an empty OGRN passed to _populate_db is passed over in both
\* loops, the step changing nothing but the loop position (no row, no pending
\* object, no cache entry, no session call); so neither the transaction nor the
\* committed store ever holds an organization without OGRN or the region that
\* only such a record names.
C9_MissingOgrnExcluded ==
    /\ [](\A rec \in Range(Parsed) : Truthy(rec.ogrn))
    /\ [](NoTraceOfMissing(db) /\ NoTraceOfMissing(tx))
    /\ [][MissingOgrnStep =>
            /\ UNCHANGED <<db, tx, pending, cache, added, sessionCalls, outcome,
                           group, specialty, input>>
            /\ i' = i + 1]_vars

\* a call of run_update whose parser passed over a certificate without OGRN,
\* followed by a committed call of _populate_db with a record without OGRN
C9_Witness ==
    /\ \E x \in Range(xml_files) : \E cert_elem \in Range(x.certs) :
          cert_elem.org.present /\ ~Truthy(GetText(cert_elem.org.OGRN, <<>>))
    /\ stage = "DONE"
    /\ all_organizations_data # <<>>
    /\ pc = "idle" /\ outcome = "committed" /\ db # dbBefore
    /\ \E k \in 1..Len(input) : MissingOgrnRecord(k)
    /\ Len(input) = MaxRecs

StageOrder ==
    <<"CHECK_NEEDED", "DOWNLOAD", "PURGE_STALE_XML", "EXTRACT", "DELETE_ARCHIVE",
      "PARSE", "RECONCILE">>

Rank(name) == CHOOSE k \in 1..Len(StageOrder) : StageOrder[k] = name

Executed(name) == \E k \in 1..Len(stages) : stages[k].stage = name
Succeeded(name) == \E k \in 1..Len(stages) : stages[k].stage = name /\ stages[k].ok

\* the stages executed so far are in the order of StageOrder, none twice
InOrderOnce ==
    \A a, b \in 1..Len(stages) :
        a < b => Rank(stages[a].stage) < Rank(stages[b].stage)

ReconcileGuarded ==
    Executed("RECONCILE") =>
        /\ Succeeded("CHECK_NEEDED")
        /\ Succeeded("DOWNLOAD")
        /\ Executed("EXTRACT") => Succeeded("EXTRACT")
        /\ Succeeded("PARSE")

InRun == stage \notin {"idle", "STOP", "DONE", "RAISED"}

\* C10 as stated: the stages of a run of run_update occur only in the order
\* CHECK_NEEDED .. RECONCILE, each at most once, RECONCILE only after a
\* positive check, a successful download, a successful extraction (when
\* performed) and a non-empty parse, and every run ends in STOP or DONE.
C10_EndsInStopOrDone ==
    /\ [](InOrderOnce /\ ReconcileGuarded /\ stage # "RAISED")
    /\ InRun ~> stage \in {"STOP", "DONE"}

\* C10, amended: order, at-most-once and the conditions of RECONCILE as stated;
\* every run ends in STOP, in DONE, or with the exception that _populate_db
\* raised, which happens only after RECONCILE was entered.
C10_OrchestratorOrdering ==
    /\ [](InOrderOnce /\ ReconcileGuarded)
    /\ [](stage = "RAISED" => Executed("RECONCILE"))
    /\ InRun ~> stage \in {"STOP", "DONE", "RAISED"}

\* a run that went through all seven stages and ended in DONE
C10_Witness ==
    /\ stage = "DONE"
    /\ Len(stages) = Len(StageOrder)
    /\ outcome = "committed"

\* a stage of the running run_update reported failure: the check said no, the
\* download or the extraction failed, or the parser returned nothing
Stopped ==
    \E k \in 1..Len(stages) :
        /\ ~stages[k].ok
        /\ stages[k].stage \in {"CHECK_NEEDED", "DOWNLOAD", "EXTRACT", "PARSE"}

\* nothing of _populate_db has happened since run_update was called: no
\* session was entered, no object added, nothing flushed, committed or rolled back
StoreUntouched ==
    /\ db = dbBefore
    /\ tx = db
    /\ pending = <<>>
    /\ added = <<>>
    /\ sessionCalls = <<>>
    /\ outcome = "none"

\* C11: a run of run_update that stops early (update not needed, download
\* failed, extraction failed, parse returned nothing) leaves the persistent
\* store as it was before the run; no session is opened and no flush, commit or
\* rollback is issued.
C11_StopLeavesStore == Stopped => StoreUntouched /\ ~Executed("RECONCILE")

\* a run over a store that holds rows, stopped by a failed extraction that had
\* already written files to the cache directory
C11_Witness ==
    /\ stage = "STOP"
    /\ Executed("EXTRACT")
    /\ files # cacheBefore
    /\ db = SeedGroup
    /\ appArg

\* every object the invocation added under a natural key is in the store s
AddedStored(s) ==
    \A k \in 1..Len(added) :
        added[k].kind \in KeyedKinds =>
            FilterBy(s[added[k].kind], KeyField(added[k].kind), added[k].key) # {}

\* C12: an invocation of _populate_db that completes without error on a
\* non-empty input does all its writes in one transaction and commits it
\* exactly once, after the last write of pass 2: while it runs, no commit or
\* rollback has been issued and the committed store is the one it started
\* from (no flush of pass 1 or pass 2 shows outside the transaction); the
\* committed store changes only in the step that commits, and then holds what
\* the run added.
C12_SingleCommit ==
    /\ [](pc # "idle" => db = dbBefore /\ sessionCalls = <<>>)
    /\ []((pc = "idle" /\ outcome = "committed")
            => sessionCalls = <<"commit">> /\ AddedStored(db))
    /\ [][db' # db => pc = "commit" /\ outcome' = "committed"]_vars

\* a committed invocation on two records that created an organization in pass 1
\* and a specialty and a program in pass 2
C12_Witness ==
    /\ pc = "idle" /\ outcome = "committed"
    /\ Len(input) = 2
    /\ {"educational_organization", "specialty", "educational_program"}
          \subseteq Kinds(added)
    /\ sessionCalls = <<"commit">>
    /\ db # dbBefore

PersistenceErrors == {"IntegrityError", "OperationalError"}

\* C13: whenever a flush or the commit fails during reconciliation (the flush
\* after an insertion of pass 1, the flush at the end of pass 1, an autoflush
\* of pass 2, the final commit), the transaction is rolled back and the failure
\* is raised out of _populate_db, and run_update ends with that exception
\* instead of ending normally.
C13_PersistenceErrorsPropagate ==
    (pc = "idle" /\ error \in PersistenceErrors)
        => /\ outcome = "raised"
           /\ sessionCalls = <<"rollback">>
           /\ db = dbBefore
           /\ stage # "DONE"

\* C14: if the flush at the end of pass 1 fails, the transaction is rolled
\* back and pass 2 is not executed (no SpecialtyGroup, Specialty or Program is
\* created, no parent link is set), and the store after the run is the store
\* before it: no organization that pass 1 created is in it.
C14_Pass1FlushFailure ==
    (pc = "idle" /\ outcome = "aborted")
        => /\ sessionCalls # <<>> /\ sessionCalls[1] = "rollback"
           /\ Kinds(added) \subseteq {"region", "educational_organization"}
           /\ db = dbBefore
           /\ \A k \in 1..Len(added) :
                 added[k].kind = "educational_organization" =>
                     FilterBy(db.educational_organization, "ogrn", added[k].key) = {}

\* the flush after a pass 1 that had created an organization and its region
\* failed, on a record that names a parent and carries a program
C14_Witness ==
    /\ pc = "idle" /\ outcome = "aborted"
    /\ {"region", "educational_organization"} \subseteq Kinds(added)
    /\ \E k \in 1..Len(input) : BranchRecord(k) /\ input[k].programs # <<>>

\* C15: an invocation of _populate_db without an application (app is None)
\* fails at once with the RuntimeError of session_scope, whatever the input
\* list, and reads and writes nothing.
C15_NoContextFailsFast ==
    (runs > 0 /\ ~appArg)
        => /\ pc = "idle"
           /\ outcome = "no_context" /\ error = "RuntimeError"
           /\ db = dbBefore /\ tx = db /\ pending = <<>>
           /\ added = <<>> /\ sessionCalls = <<>>

\* the flag success of load_data_command (commands.py 27-36): true unless
\* run_update raised
success(end) == end # "RAISED"

\* C16: the caller of run_update is told failure for a run that stopped because
\* the URL is unconfigured, the download failed or the extraction failed, and
\* success for a run that reached DONE.
C16_StopReportedAsFailure ==
    /\ stage = "STOP" => ~success(stage)
    /\ stage = "DONE" => success(stage)

\* the source URL is empty or is the placeholder
Unconfigured == data_url = <<>> \/ data_url = Sentinel

\* C17: with the source URL empty or equal to the placeholder the check says no
\* and run_update stops there: no download is attempted, no file of the cache
\* directory is created, deleted or extracted, and the store is not touched;
\* with any other URL the check says that an update is needed.
C17_UnconfiguredSource ==
    /\ [](Unconfigured /\ stage # "idle"
            => /\ stage \in {"check", "STOP"}
               /\ Len(stages) <= 1
               /\ \A k \in 1..Len(stages) :
                     stages[k] = [stage |-> "CHECK_NEEDED", ok |-> FALSE]
               /\ files = cacheBefore
               /\ StoreUntouched)
    /\ [](~Unconfigured /\ stage \notin {"idle", "check"}
            => stages[1] = [stage |-> "CHECK_NEEDED", ok |-> TRUE])
    /\ [][stage = "check" /\ Unconfigured
            => stage' = "STOP" /\ UNCHANGED <<files, db, tx, pending>>]_vars

\* a run with the placeholder URL has stopped, over a cache directory that
\* holds a file and a store that holds a row
C17_Witness ==
    /\ stage = "STOP"
    /\ data_url = Sentinel
    /\ files # {}
    /\ db = SeedGroup

\* C18: in a run of run_update that reaches PARSE, no .xml file that was in the
\* cache directory before the run started is read by the parser.
C18_StaleXmlNeverParsed ==
    \A k \in 1..Len(xml_files) : xml_files[k] \notin cacheBefore

DownloadFailed == Executed("DOWNLOAD") /\ ~Succeeded("DOWNLOAD")

\* C19: _download_data does not raise; when it reports failure run_update
\* stops at once: DOWNLOAD is the last stage of the run, no cached file is
\* removed, nothing is extracted or parsed, and _populate_db is not called.
C19_FetchFailureStops ==
    DownloadFailed
        => /\ stage = "STOP"
           /\ Len(stages) = 2 /\ stages[2].stage = "DOWNLOAD"
           /\ \A x \in cacheBefore : x \in files \/ x.name = archive_filename
           /\ \A x \in files : x \in cacheBefore \/ x = Garbage(archive_filename)
           /\ xml_files = <<>> /\ all_organizations_data = <<>>
           /\ StoreUntouched

\* a download that failed after it had begun to write the archive, in a cache
\* directory that holds an .xml file of an earlier run
C19_Witness ==
    /\ DownloadFailed
    /\ Garbage(archive_filename) \in files
    /\ Glob(cacheBefore) # {}
    /\ Glob(files) = Glob(cacheBefore)

\* the file at archive_path is a ZIP archive all of whose members can be read
WellFormedZip == \E x \in ArchiveFiles : x.kind = "zip"

\* C20: for a file that is not a well-formed ZIP (corrupt or no ZIP at all)
\* _unpack_archive reports failure without raising and without extracting any
\* entry, and run_update stops there: the archive stays in the cache directory
\* and DELETE_ARCHIVE, PARSE and RECONCILE are not executed.
C20_ExtractorRefusal ==
    [][(stage = "extract" /\ ~WellFormedZip)
         => /\ stage' = "STOP"
            /\ files' = files
            /\ stages' = Append(stages, [stage |-> "EXTRACT", ok |-> FALSE])
            /\ UNCHANGED <<db, tx, pending, xml_files>>]_vars

DeleteFailed == Executed("DELETE_ARCHIVE") /\ ~Succeeded("DELETE_ARCHIVE")

\* C21: the downloaded archive is deleted only after a successful extraction
\* and before the parser starts; whether or not the deletion succeeds, the run
\* goes on to PARSE with the same .xml files in the cache directory and the
\* same store, so that PARSE and RECONCILE do what they would have done had
\* the deletion succeeded.
C21_ArchiveDeletion ==
    /\ [](Executed("DELETE_ARCHIVE") => InOrderOnce /\ Succeeded("EXTRACT"))
    /\ [](stage = "delete"
            => /\ stages[Len(stages)] = [stage |-> "EXTRACT", ok |-> TRUE]
               /\ xml_files = <<>>)
    /\ [][stage = "delete"
            => /\ stage' = "parse"
               /\ Glob(files') = Glob(files)
               /\ \A x \in files : x \in files' \/ x.name = archive_filename
               /\ UNCHANGED <<db, tx, pending, archive_filename>>]_vars
    /\ [][ArchiveFiles # {} /\ stage \notin {"idle", "STOP", "DONE", "RAISED"}
            /\ (\A x \in files' : x.name # archive_filename)
            => stage = "delete"]_vars
    /\ stage = "delete" ~> Executed("PARSE")

\* a run that could not delete its archive and went on to commit what the
\* extracted files held
C21_Witness ==
    /\ stage = "DONE"
    /\ DeleteFailed
    /\ ArchiveFiles # {}
    /\ Succeeded("PARSE")
    /\ outcome = "committed" /\ db # dbBefore

\* the parser has finished and no file gave it anything: the cache directory
\* held no .xml file, or the parser raised on every one of them
NothingParsable ==
    /\ Executed("PARSE")
    /\ \A k \in 1..Len(xml_files) : xml_files[k].broken

\* C22: when the cache directory holds no .xml file, or every file fails to
\* parse, _parse_xml_files returns an empty list and run_update ends normally
\* without calling _populate_db: nothing is raised and the store is not touched.
C22_NothingToLoad ==
    /\ [](NothingParsable
            => /\ all_organizations_data = <<>>
               /\ stage \in {"reconcile", "DONE"}
               /\ ~Executed("RECONCILE")
               /\ StoreUntouched)
    /\ NothingParsable ~> stage = "DONE"

\* a run that ended after the parser had raised on every file it was given,
\* one of them after reading a certificate
C22_Witness ==
    /\ stage = "DONE"
    /\ NothingParsable
    /\ \E k \in 1..Len(xml_files) : xml_files[k].certs # <<>>
    /\ db = SeedGroup

\* a run that ended after the parser had found no file
C22_WitnessNoFile ==
    /\ stage = "DONE"
    /\ Executed("PARSE")
    /\ xml_files = <<>>

\* the columns of an organization row that a run takes from the record
RecordColumns(r) ==
    [id |-> r.id, ogrn |-> r.ogrn, full_name |-> r.full_name,
     short_name |-> r.short_name, inn |-> r.inn, address |-> r.address,
     region_id |-> r.region_id]

ExistedBefore(ogrn) == FilterBy(dbBefore.educational_organization, "ogrn", ogrn) # {}

\* every organization of the store at the start of the run is in s with the
\* same id and the same record columns
OrganizationsKept(s) ==
    \A r \in dbBefore.educational_organization :
        \E r2 \in s.educational_organization : RecordColumns(r2) = RecordColumns(r)

\* C23: an organization whose OGRN is in storage before a run keeps its
\* full_name, short_name, inn, address and region_id through the run, in the
\* transaction and in the committed store, whatever the record of that OGRN
\* carries; and every Region the run adds is the region of a record whose OGRN
\* was not in storage.
C23_ExistingNotOverwritten ==
    /\ OrganizationsKept(db)
    /\ OrganizationsKept(tx)
    /\ \A a \in 1..Len(added) :
          added[a].kind = "region" =>
              \E k \in 1..Len(input) :
                  /\ Truthy(input[k].ogrn)
                  /\ ~ExistedBefore(input[k].ogrn)
                  /\ RegionNameFor(input[k]) = added[a].key

\* a committed run on a record whose OGRN was in storage under another name and
\* without region, the record naming a region that storage does not hold
C23_Witness ==
    /\ pc = "idle" /\ outcome = "committed"
    /\ \E k \in 1..Len(input) :
          /\ ExistedBefore(input[k].ogrn)
          /\ Truthy(input[k].region_name)
          /\ \A r \in FilterBy(dbBefore.educational_organization, "ogrn",
                               input[k].ogrn) :
                r.full_name # input[k].full_name /\ r.region_id = NoId
    /\ dbBefore.region = {}

Ids(rows) == {r.id : r \in rows}

\* every reference of the store s leads to a row of s
RefIntegrity(s) ==
    /\ \A o \in s.educational_organization :
          /\ o.parent_id # NoId => o.parent_id \in Ids(s.educational_organization)
          /\ o.region_id # NoId => o.region_id \in Ids(s.region)
    /\ \A e \in s.educational_program :
          /\ e.organization_id \in Ids(s.educational_organization)
          /\ e.specialty_id \in Ids(s.specialty)
    /\ \A sp \in s.specialty : sp.group_id \in Ids(s.specialty_group)

\* C24: in the committed store, after every committed run, every non-null
\* parent_id and region_id of an organization, the organization_id and
\* specialty_id of every program and the group_id of every specialty is the id
\* of a row of the store.
C24_ReferentialIntegrity == RefIntegrity(db)

\* the store after a committed run holds a branch linked to its parent, an
\* organization linked to a region, and a program of a specialty of a group
C24_Witness ==
    /\ pc = "idle" /\ outcome = "committed" /\ ~rerun
    /\ \E o \in db.educational_organization : o.parent_id # NoId /\ o.parent_id # o.id
    /\ \E o \in db.educational_organization : o.region_id # NoId
    /\ db.educational_program # {}
    /\ "specialty" \in Kinds(added)

\* every row of the store at the start of the run is still in s: under the
\* same id, and for the tables the pipeline never updates, unchanged
RowsKept(s) ==
    /\ \A t \in Tables : Ids(dbBefore[t]) \subseteq Ids(s[t])
    /\ \A t \in Tables \ {"educational_organization"} : dbBefore[t] \subseteq s[t]

\* C25: no run of run_update or of _populate_db deletes a row: the Region,
\* SpecialtyGroup, Specialty, EducationalOrganization and EducationalProgram rows
\* present before the run are present during and after it, however it ends.
C25_NeverDeletes == RowsKept(db) /\ RowsKept(tx)

\* a run of run_update over a store that held a row has committed new rows
C25_Witness ==
    /\ stage = "DONE"
    /\ pc = "idle" /\ outcome = "committed"
    /\ dbBefore = SeedGroup
    /\ \A t \in Tables : db[t] # {}

\* every program of the input that carries both codes belongs to a group that
\* storage held before the run (so that no group is created by the run)
GroupsKnown ==
    \A k \in 1..Len(input) : \A n \in 1..Len(input[k].programs) :
        LET p == input[k].programs[n]
        IN  (Truthy(p.specialty_code) /\ Truthy(p.ugs_code)) =>
                FilterBy(dbBefore.specialty_group, "code", p.ugs_code) # {}

\* two or more records, with distinct OGRNs, none of which has an INN
AllLackInn ==
    /\ Len(input) >= 2
    /\ \A k \in 1..Len(input) : Truthy(input[k].ogrn) /\ ~Truthy(input[k].inn)
    /\ \A k, m \in 1..Len(input) : k # m => input[k].ogrn # input[m].ogrn

\* C26: a run on two or more records with distinct OGRNs that all lack an INN
\* (the database being reachable, and no group being created) completes and
\* commits, and the store then holds one organization row for each of them.
C26_InnOptional ==
    (/\ Ended
     /\ outcome \notin {"nothing", "no_context"}
     /\ error # "OperationalError"
     /\ GroupsKnown
     /\ AllLackInn)
        => /\ outcome = "committed"
           /\ \A k \in 1..Len(input) :
                 Cardinality(FilterBy(db.educational_organization, "ogrn",
                                      input[k].ogrn)) = 1

\* the records of the certificates of a file that carry an organization and an
\* OGRN, in document order
RECURSIVE RecordsOfCerts(_)
RecordsOfCerts(certs) ==
    IF certs = <<>> THEN <<>>
    ELSE (IF CertSkipped(Head(certs)) THEN <<>> ELSE <<OrgData(Head(certs))>>)
         \o RecordsOfCerts(Tail(certs))

\* the records of all the certificates the parser read in the files, those
\* read before an error included
RECURSIVE RecordsOfFiles(_)
RecordsOfFiles(fs) ==
    IF fs = <<>> THEN <<>>
    ELSE RecordsOfCerts(Head(fs).certs) \o RecordsOfFiles(Tail(fs))

\* C27: when the parser raises on a file after it has extracted k records of
\* it, these k records stay in the output, the parser goes on to the next
\* file, and the records of the other files are returned unchanged: the output
\* of _parse_xml_files is the list of the records read in all the files.
C27_FileErrorsRecovered ==
    Executed("PARSE") => all_organizations_data = RecordsOfFiles(xml_files)

\* the first record of the input that carries this OGRN
FirstWith(ogrn) ==
    input[CHOOSE k \in 1..Len(input) :
              /\ input[k].ogrn = ogrn
              /\ \A m \in 1..(k - 1) : input[m].ogrn # ogrn]

\* the OGRNs of the organizations the invocation has created
CreatedOgrns ==
    {added[k].key : k \in {n \in 1..Len(added) :
                              added[n].kind = "educational_organization"}}

\* the name of the Region a stored organization is linked to, NULL when unset
RegionOf(s, row) ==
    IF row.region_id = NoId THEN NULL
    ELSE (CHOOSE r \in s.region : r.id = row.region_id).name

\* what the resolution order promises for a record
ResolvedRegion(org_data) ==
    LET explicit == org_data.region_name
        fallback == ExtractRegionFromAddress(org_data.address)
    IN  IF explicit # NULL /\ Len(explicit) > 0
        THEN Capitalize(Strip(explicit))
        ELSE IF fallback # NULL /\ Len(fallback) > 0 THEN fallback
        ELSE NULL

\* the iteration of pass 1 at hand creates an organization without region
CreatesWithoutRegion ==
    /\ pc = "pass1"
    /\ Truthy(input[i].ogrn)
    /\ input[i].ogrn \notin cache.organizations
    /\ FilterBy(tx.educational_organization, "ogrn", input[i].ogrn) = {}
    /\ ResolvedRegion(input[i]) = NULL

\* C28: region resolution order when an organization is created: a record
\* with a non-empty explicit region name gives an organization linked to the
\* Region of that name normalized (trimmed, first character upper-cased, the
\* rest lower-cased), whatever its address says; otherwise the address
\* fallback is used when it gives a non-empty name; otherwise the
\* organization is created with region unset.  Creating an organization
\* without region fails only for reasons that are not the region (a database
\* error, or an INN some stored organization already has).
C28_RegionResolution ==
    /\ [](\A ogrn \in CreatedOgrns :
            \A row \in FilterBy(tx.educational_organization, "ogrn", ogrn) :
                /\ RegionOf(tx, row) = ResolvedRegion(FirstWith(ogrn))
                /\ row.region_id # NoId
                     => Cardinality(FilterBy(tx.region, "id", row.region_id)) = 1)
    /\ [][CreatesWithoutRegion /\ outcome' = "raised"
            => \/ error' = "OperationalError"
               \/ FilterBy(tx.educational_organization, "inn", input[i].inn) # {}]_vars

\* a committed run created one organization whose record had both a region
\* name and an address and is linked to the named region, and one whose record
\* had only an address and is linked to the region the address gave
C28_Witness ==
    /\ pc = "idle" /\ outcome = "committed"
    /\ \E a, b \in CreatedOgrns :
         /\ Truthy(FirstWith(a).region_name) /\ Truthy(FirstWith(a).address)
         /\ ExtractRegionFromAddress(FirstWith(a).address)
              # Capitalize(Strip(FirstWith(a).region_name))
         /\ \E row \in FilterBy(db.educational_organization, "ogrn", a) :
              RegionOf(db, row) = Capitalize(Strip(FirstWith(a).region_name))
         /\ ~Truthy(FirstWith(b).region_name)
         /\ \E row \in FilterBy(db.educational_organization, "ogrn", b) :
              /\ row.region_id # NoId
              /\ RegionOf(db, row) = ExtractRegionFromAddress(FirstWith(b).address)

\* a committed run created an organization with no region at all
C28_WitnessUnset ==
    /\ pc = "idle" /\ outcome = "committed"
    /\ \E a \in CreatedOgrns :
         /\ ResolvedRegion(FirstWith(a)) = NULL
         /\ \E row \in FilterBy(db.educational_organization, "ogrn", a) :
              row.region_id = NoId

\* str.split(','): all the comma-separated parts of a text
RECURSIVE Parts(_)
Parts(s) ==
    IF \A k \in 1..Len(s) : s[k] # "," THEN <<s>>
    ELSE LET c == CHOOSE k \in 1..Len(s) :
                     s[k] = "," /\ \A m \in 1..(k - 1) : s[m] # ","
         IN  <<SubSeq(s, 1, c - 1)>> \o Parts(SubSeq(s, c + 1, Len(s)))

\* the known regional substrings an address contains, whatever its case
KnownIn(address) ==
    {k \in 1..Len(possible_regions) : Contains(Lower(address), possible_regions[k])}

\* a 6-digit postal code, possibly with blanks around it
IsPostalCode(part) ==
    /\ Len(Strip(part)) = 6
    /\ \A k \in 1..Len(Strip(part)) : Strip(part)[k] \in Digits

\* the comma-separated part the fallback picks: the first, or the second when
\* the first is a postal code
PickedPart(address) ==
    IF IsPostalCode(Parts(address)[1]) THEN Parts(address)[2] ELSE Parts(address)[1]

\* C29 as stated: a known regional substring yields that region; otherwise an
\* address with a comma yields its first comma-separated part (the second
\* when the first is a 6-digit postal code), as it stands in the address but
\* for surrounding blanks; no known substring and no comma yields null.
C29_AddressFallbackVerbatim ==
    \A n \in 1..Len(input) :
        LET address == input[n].address
            region == ExtractRegionFromAddress(address)
        IN  IF KnownIn(address) # {}
            THEN /\ region # NULL
                 /\ \E k \in KnownIn(address) : Lower(region) = possible_regions[k]
            ELSE IF Len(Parts(address)) > 1
            THEN region = Strip(PickedPart(address))
            ELSE region = NULL

\* C29: address fallback: an address containing, in any case, one of the
\* known regional substrings yields that substring capitalized, the first of
\* the list when several occur; otherwise an address with at least one comma
\* yields its first comma-separated part, or its second when the first is a
\* 6-digit postal code, trimmed and capitalized (first character upper-cased,
\* the rest lower-cased; the empty text when the part is blank); an address
\* with no known substring and no comma yields null.
C29_AddressFallback ==
    \A n \in 1..Len(input) :
        LET address == input[n].address
            region == ExtractRegionFromAddress(address)
        IN  IF KnownIn(address) # {}
            THEN region = Capitalize(possible_regions[
                              CHOOSE k \in KnownIn(address) :
                                  \A m \in KnownIn(address) : k <= m])
            ELSE IF Len(Parts(address)) > 1
            THEN region = Capitalize(Strip(PickedPart(address)))
            ELSE region = NULL

\* a committed run created an organization whose address starts with a postal
\* code and holds no known region, and linked it to the Region named by the
\* second part of the address
C29_Witness ==
    /\ pc = "idle" /\ outcome = "committed"
    /\ Len(input) > 0
    /\ KnownIn(input[1].address) = {}
    /\ IsPostalCode(Parts(input[1].address)[1])
    /\ Len(Parts(input[1].address)) > 2
    /\ \E row \in FilterBy(db.educational_organization, "ogrn", input[1].ogrn) :
         /\ row.region_id # NoId
         /\ row.address = input[1].address
         /\ RegionOf(db, row) = Capitalize(Strip(Parts(input[1].address)[2]))
         /\ RegionOf(db, row) # Strip(Parts(input[1].address)[2])

\* C30: every invocation of _populate_db on a non-empty list with an
\* application at hand ends having called exactly one of session.commit and
\* session.rollback, once: no call of either while it runs, and one call in
\* all when it has ended, whether it ended normally or on an error (the
\* failure of the flush at the end of pass 1 included).
C30_CommitOrRollback ==
    (runs > 0 /\ input # <<>> /\ appArg)
        => IF pc = "idle"
           THEN sessionCalls \in {<<"commit">>, <<"rollback">>}
           ELSE sessionCalls = <<>>

\* the programs of the input that pass 2 takes up, in the order it takes them
\* up: <<record, program>> index pairs of the records with an OGRN whose
\* program carries both codes
TakenUp ==
    {<<k, n>> \in (1..Len(input)) \X (1..MaxRecs + 1) :
        /\ Truthy(input[k].ogrn)
        /\ n <= Len(input[k].programs)
        /\ Truthy(input[k].programs[n].specialty_code)
        /\ Truthy(input[k].programs[n].ugs_code)}

Before(a, b) == a[1] < b[1] \/ (a[1] = b[1] /\ a[2] < b[2])

ProgAt(a) == input[a[1]].programs[a[2]]

\* the group code under which the specialty code was seen first: the one of
\* the row that storage held before the run, else the one of the first
\* program of the input that carries the specialty code
FirstSeenGroup(code) ==
    IF FilterBy(dbBefore.specialty, "code", code) # {}
    THEN LET gid == First(FilterBy(dbBefore.specialty, "code", code)).group_id
         IN  (CHOOSE g \in dbBefore.specialty_group : g.id = gid).code
    ELSE LET a == CHOOSE a \in TakenUp :
                      /\ ProgAt(a).specialty_code = code
                      /\ \A b \in TakenUp :
                            ProgAt(b).specialty_code = code => ~Before(b, a)
         IN  ProgAt(a).ugs_code

\* the program comes with a group code other than the first-seen one of its
\* specialty code
LaterGroup(a) == ProgAt(a).ugs_code # FirstSeenGroup(ProgAt(a).specialty_code)

\* C31: first-seen group wins: when a run has ended that took up a program
\* whose specialty code had been seen before under another group code (in
\* storage, or earlier in the same list), and neither the database connection
\* nor the organization fields of the input gave a cause of failure, exactly
\* one Specialty row has the code and its group is the first-seen one; the
\* SpecialtyGroup row of the program's own group code exists, and the
\* EducationalProgram of the organization is linked to that one Specialty.
C31_FirstSeenGroupWins ==
    (/\ Ended
     /\ outcome \notin {"nothing", "no_context"}
     /\ error # "OperationalError"
     /\ CleanInput)
        => \A a \in TakenUp :
              LaterGroup(a) =>
                LET code == ProgAt(a).specialty_code
                    rows == FilterBy(db.specialty, "code", code)
                IN  /\ Cardinality(rows) = 1
                    /\ \A r \in rows :
                          r.group_id = IdOf(db.specialty_group, "code",
                                            FirstSeenGroup(code))
                    /\ FilterBy(db.specialty_group, "code", ProgAt(a).ugs_code) # {}
                    /\ \E e \in db.educational_program :
                          /\ e.organization_id =
                                IdOf(db.educational_organization, "ogrn",
                                     input[a[1]].ogrn)
                          /\ \A r \in rows : e.specialty_id = r.id

\* a program entry without specialty code or without group code
Incomplete(prog_data) ==
    ~Truthy(prog_data.specialty_code) \/ ~Truthy(prog_data.ugs_code)

\* pass 2 is at a program entry that lacks a code
AtIncomplete == pc = "prog" /\ Incomplete(input[i].programs[j])

HasOrgAndOgrn(cert_elem) ==
    /\ cert_elem.org.present
    /\ cert_elem.org.OGRN # NULL
    /\ Strip(cert_elem.org.OGRN) # <<>>

\* the positions of the certificates of a list that have both
KeptIdx(certs) == {k \in 1..Len(certs) : HasOrgAndOgrn(certs[k])}

\* the k-th smallest element of a set of positions
RECURSIVE Nth(_, _)
Nth(S, k) ==
    LET lo == CHOOSE x \in S : \A y \in S : x <= y
    IN  IF k = 1 THEN lo ELSE Nth(S \ {lo}, k - 1)

\* the subsequence of the certificates that have both, in document order
KeptCerts(certs) ==
    [k \in 1..Cardinality(KeptIdx(certs)) |-> certs[Nth(KeptIdx(certs), k)]]

\* the records of a list of certificates, each taken from its own certificate
RecordsFrom(certs) == [k \in 1..Len(certs) |-> OrgData(certs[k])]

\* the parser is at a certificate that lacks the organization or the OGRN
AtSkippedCert ==
    /\ stage = "parsing"
    /\ certIdx < Len(xml_files[fileIdx].certs)
    /\ ~HasOrgAndOgrn(xml_files[fileIdx].certs[certIdx + 1])

\* the parser is at the end of a file that it has read without error
AtFileEnd ==
    /\ stage = "parsing"
    /\ certIdx = Len(xml_files[fileIdx].certs)
    /\ ~xml_files[fileIdx].broken

\* C33: per-record skipping in the parser: while a file is read, the records
\* taken from it are those of the certificates read so far that have an
\* organization sub-element and a non-empty OGRN, in document order, each the
\* record of its own certificate; the step at a certificate that lacks one of
\* the two changes no record and goes on to the next certificate of the file;
\* and a file read to its end without error adds exactly that subsequence to
\* the output.
C33_PerRecordSkipping ==
    /\ [](stage = "parsing"
            => organizations_in_file =
                  RecordsFrom(KeptCerts(SubSeq(xml_files[fileIdx].certs, 1, certIdx))))
    /\ [][AtSkippedCert
            => /\ UNCHANGED <<organizations_in_file, all_organizations_data,
                              fileIdx, xml_files>>
               /\ stage' = "parsing"
               /\ certIdx' = certIdx + 1]_vars
    /\ [][AtFileEnd
            => all_organizations_data' =
                  all_organizations_data
                  \o RecordsFrom(KeptCerts(xml_files[fileIdx].certs))]_vars

\* the parser has returned the one record of a file whose first certificate
\* lacks the OGRN and whose second has it
C33_Witness ==
    /\ Succeeded("PARSE")
    /\ \E k \in 1..Len(xml_files) :
         /\ ~xml_files[k].broken
         /\ Len(xml_files[k].certs) = 2
         /\ ~HasOrgAndOgrn(xml_files[k].certs[1])
         /\ HasOrgAndOgrn(xml_files[k].certs[2])
         /\ all_organizations_data = <<OrgData(xml_files[k].certs[2])>>

\* the branch flag of the organization sub-element reads "1" (blanks around
\* the text aside)
FlaggedBranch(cert_elem) ==
    cert_elem.org.IsBranch # NULL /\ Strip(cert_elem.org.IsBranch) = <<"1">>

\* the certificate-level OGRN field as text: empty when the element is missing
CertificateOgrn(cert_elem) ==
    IF cert_elem.EduOrgOGRN = NULL THEN <<>> ELSE Strip(cert_elem.EduOrgOGRN)

\* C34: branch detection in the parser: a record has is_branch = true exactly
\* when the branch flag of the organization sub-element of its certificate is
\* "1"; then parent_ogrn is the certificate-level OGRN field; for a record
\* with is_branch = false parent_ogrn is absent; and the step of pass 2 at a
\* record with is_branch = false changes the parent of no organization.
C34_BranchDetection ==
    /\ [](\A k \in 1..Len(origins) :
            /\ Parsed[k].is_branch = FlaggedBranch(origins[k])
            /\ Parsed[k].is_branch
                 => Parsed[k].parent_ogrn = CertificateOgrn(origins[k])
            /\ ~Parsed[k].is_branch => Parsed[k].parent_ogrn = NULL)
    /\ [][pc = "pass2" /\ ~input[i].is_branch
            => /\ tx'.educational_organization = tx.educational_organization
               /\ outcome' = outcome]_vars

\* a committed run of run_update over a document in which the certificate
\* of a branch names the head and the certificate of the head, flagged "0",
\* names the branch: the branch has the head as parent, the head has none
C34_Witness ==
    /\ stage = "DONE" /\ outcome = "committed"
    /\ Len(origins) = 2
    /\ FlaggedBranch(origins[1]) /\ ~FlaggedBranch(origins[2])
    /\ origins[1].org.IsBranch # <<"1">>
    /\ origins[2].EduOrgOGRN = input[1].ogrn
    /\ input[1].parent_ogrn = input[2].ogrn
    /\ \E b, h \in db.educational_organization :
         /\ b.ogrn = input[1].ogrn /\ h.ogrn = input[2].ogrn
         /\ b.parent_id = h.id
         /\ h.parent_id = NoId

\* the invocation got the list of the invocation before, which was rolled back
RerunAfterRollback == rerun /\ prevOutcome \in {"raised", "aborted"}

\* the object of this kind and key was in storage before the run, or the run
\* created it
FoundOrCreated(kind, key) ==
    \/ FilterBy(dbBefore[kind], KeyField(kind), key) # {}
    \/ [kind |-> kind, key |-> key] \in Range(added)

\* C35: the in-run caches are scoped to one run: between invocations of
\* _populate_db nothing is cached, and an invocation starts with four empty
\* caches, an empty session and the committed store; after a run that was
\* rolled back, a committed run on the same list has found in storage or
\* created itself every organization, specialty group and specialty of the
\* list, and the store holds the organization of every record and the
\* programs of every record.
C35_CachesScopedToRun ==
    /\ [](pc = "idle" => cache = EmptyCache)
    /\ [][pc = "idle" /\ pc' # "idle"
            => cache' = EmptyCache /\ pending' = <<>> /\ tx' = db]_vars
    /\ []((RerunAfterRollback /\ Ended /\ outcome = "committed")
            => /\ \A k \in 1..Len(input) :
                     Truthy(input[k].ogrn)
                        => /\ FoundOrCreated("educational_organization", input[k].ogrn)
                           /\ FilterBy(db.educational_organization, "ogrn",
                                       input[k].ogrn) # {}
                           /\ ProgramsStored(db, k)
               /\ \A a \in TakenUp :
                     /\ FoundOrCreated("specialty_group", ProgAt(a).ugs_code)
                     /\ FoundOrCreated("specialty", ProgAt(a).specialty_code)
               /\ AddedStored(db))

\* a run that had added a region, an organization, a specialty and a program
\* was rolled back, and the run on the same list that followed created them
\* and committed
C35_Witness ==
    /\ RerunAfterRollback /\ Ended /\ outcome = "committed"
    /\ {"region", "educational_organization", "specialty", "educational_program"}
          \subseteq Kinds(added)
    /\ db # dbBefore
    /\ AddedStored(db)

\* C36: streaming bound: while _parse_xml_files iterates a file, at every
\* iteration boundary the tree holds, of the Certificate elements handed over
\* so far, only the one handled last, and that one cleared, whether its record
\* was extracted or skipped: no content of a certificate is retained, however
\* many certificates were read.
C36_StreamingBound ==
    stage = "parsing"
        => /\ Len(tree) <= 1
           /\ \A k \in 1..Len(tree) : tree[k].cleared /\ tree[k].cert = certIdx
           /\ certIdx > 0 => Len(tree) = 1

\* the parser has handled the second certificate of a file whose first was
\* skipped and whose second was extracted, and holds the second alone, cleared
C36_Witness ==
    /\ stage = "parsing"
    /\ certIdx = 2
    /\ PathOf(xml_files[fileIdx].certs[1]) = "no_ogrn"
    /\ PathOf(xml_files[fileIdx].certs[2]) = "extracted"
    /\ tree = <<[cert |-> 2, cleared |-> TRUE]>>

\* the organization rows that s and t both hold but with different parents
Reparented(s, t) ==
    {r \in s.educational_organization :
        \E q \in t.educational_organization :
            q.id = r.id /\ q.parent_id # r.parent_id}

\* the record at hand in pass 2 is a branch record whose parent OGRN names an
\* organization of the in-run cache or of storage
ParentResolves ==
    /\ pc = "pass2"
    /\ Truthy(input[i].ogrn) /\ input[i].ogrn \in cache.organizations
    /\ input[i].is_branch
    /\ Truthy(input[i].parent_ogrn)
    /\ \/ input[i].parent_ogrn \in cache.organizations
       \/ FilterBy(tx.educational_organization, "ogrn", input[i].parent_ogrn) # {}

\* C37: a step of a run gives an organization another parent_id only in pass
\* 2, at a record with is_branch = true and a non-empty parent OGRN that
\* resolves in the in-run cache or in storage, and then only to the
\* organization of that record, which gets the id of the resolved parent; at
\* any other record of pass 2 (no branch, empty parent OGRN, parent not found)
\* and in any other step no parent_id changes, a rollback to the committed
\* rows aside; so after a committed run an organization that storage held
\* keeps its parent unless a record of the run named it as a branch of a
\* resolvable parent.
C37_ParentOnlyWhenResolved ==
    /\ [][(outcome' \notin {"raised", "aborted"})
            => \A r \in Reparented(tx, tx') :
                  /\ ParentResolves
                  /\ r.ogrn = input[i].ogrn
                  /\ \E q \in tx'.educational_organization :
                        /\ q.id = r.id
                        /\ q.parent_id = IdOf(tx.educational_organization, "ogrn",
                                              input[i].parent_ogrn)]_vars
    /\ [][(pc = "pass2" /\ ~ParentResolves)
            => \/ outcome' = "raised"
               \/ outcome' = "running" /\ Reparented(tx, tx') = {}]_vars
    /\ []((Ended /\ outcome = "committed")
            => \A r \in Reparented(dbBefore, db) :
                  \E k \in 1..Len(input) :
                      /\ input[k].ogrn = r.ogrn
                      /\ BranchRecord(k) /\ Resolvable(input[k].parent_ogrn))

\* a committed run with a branch record naming an unknown parent, for an
\* organization that storage held with a parent: it has that parent still
C37_Witness ==
    /\ Ended /\ outcome = "committed"
    /\ \E k \in 1..Len(input) :
         /\ Unresolvable(k)
         /\ \E r \in dbBefore.educational_organization :
              /\ r.ogrn = input[k].ogrn
              /\ r.parent_id # NoId
              /\ \E q \in db.educational_organization :
                    q.id = r.id /\ q.parent_id = r.parent_id
    /\ db # dbBefore

\* C38: no organization is its own parent: no EducationalOrganization row of
\* the committed store has parent_id equal to its own id, whatever the records
\* of the runs declared.
C38_NoSelfParent ==
    \A r \in db.educational_organization : r.parent_id # r.id

\* the check has said yes and the name derived from the URL does not end in
\* '.zip', whatever the case of its letters
NonZipName ==
    /\ Succeeded("CHECK_NEEDED")
    /\ ~EndsWith(Lower(archive_filename), <<".","z","i","p">>)

\* C39: non-ZIP archive name: when the archive file name derived from the URL
\* does not end in '.zip' (case-insensitive), run_update executes no
\* stale-XML purge, no extraction and no archive deletion; once the download
\* has succeeded it goes to PARSE, the cache directory holding what it held
\* before the run and the downloaded file; PARSE reads the .xml files of the
\* cache directory, whatever they are; RECONCILE is executed exactly when
\* records result; and a run whose download succeeded gets to PARSE.  The
\* file name is the last segment of the URL path, and 'data.zip' when that
\* segment is empty.
C39_NonZipArchiveName ==
    /\ [](NonZipName
            => /\ ~Executed("PURGE_STALE_XML")
               /\ ~Executed("EXTRACT")
               /\ ~Executed("DELETE_ARCHIVE"))
    /\ [][(NonZipName /\ stage = "download" /\ stage' # "STOP")
            => /\ stage' = "parse"
               /\ \A x \in files : x \in files' \/ x.name = archive_filename
               /\ \A x \in files' : x \in files \/ x.name = archive_filename]_vars
    /\ [][(NonZipName /\ stage = "parse")
            => /\ files' = files
               /\ Range(xml_files') = Glob(files)
               /\ Len(xml_files') = Cardinality(Glob(files))]_vars
    /\ []((NonZipName /\ stage \in {"reconciling", "DONE", "RAISED"})
            => (Executed("RECONCILE") <=> all_organizations_data # <<>>))
    /\ (NonZipName /\ Succeeded("DOWNLOAD")) ~> Executed("PARSE")
    /\ [](Succeeded("CHECK_NEEDED")
            => archive_filename =
                  IF Basename(data_url) = <<>> THEN <<"d","a","t","a",".","z","i","p">>
                  ELSE Basename(data_url))

\* a run under a URL that names an .xml file, in a cache directory that held
\* an .xml file of an earlier run: it parsed the old file and the downloaded
\* one, and committed
C39_Witness ==
    /\ stage = "DONE" /\ outcome = "committed"
    /\ NonZipName
    /\ Len(xml_files) = 2
    /\ \E k \in 1..Len(xml_files) : xml_files[k] \in cacheBefore
    /\ \E k \in 1..Len(xml_files) : xml_files[k].name = archive_filename
    /\ Succeeded("RECONCILE")
    /\ db # dbBefore

\* the positions of the records of the input that carry this OGRN
RecordsWith(ogrn) == {k \in 1..Len(input) : input[k].ogrn = ogrn}

\* the OGRNs that several records of the input carry
RepeatedOgrns ==
    {input[k].ogrn : k \in {n \in 1..Len(input) :
        Truthy(input[n].ogrn) /\ Cardinality(RecordsWith(input[n].ogrn)) > 1}}

\* the row has the descriptive fields and the region of the record
FieldsFrom(s, row, org_data) ==
    /\ row.full_name = org_data.full_name
    /\ row.short_name = org_data.short_name
    /\ row.inn = org_data.inn
    /\ row.address = org_data.address
    /\ RegionOf(s, row) = ResolvedRegion(org_data)

\* the records of this OGRN that are branch records with a resolvable parent
ResolvableBranches(ogrn) ==
    {k \in RecordsWith(ogrn) : BranchRecord(k) /\ Resolvable(input[k].parent_ogrn)}

\* the programs of all the records of the OGRN are attached to the row, and
\* its parent is the one resolved for the last branch record with a
\* resolvable parent OGRN
ProgramsAndParent(ogrn, row) ==
    /\ \A k \in RecordsWith(ogrn) : ProgramsStored(db, k)
    /\ ProgramPairsUnique(db)
    /\ ResolvableBranches(ogrn) # {}
          => row.parent_id =
                IdOf(db.educational_organization, "ogrn",
                     input[MaxOf(ResolvableBranches(ogrn))].parent_ogrn)

\* C40 as stated: after a committed run in which several records carry one
\* OGRN, the store has exactly one organization row of that OGRN, with the
\* descriptive fields and the region of the first of these records, the
\* programs of all of them, and the parent resolved for the last of them that
\* is a branch with a resolvable parent OGRN.
C40_DuplicateOgrnFirstRecordWins ==
    (Ended /\ outcome = "committed")
        => \A ogrn \in RepeatedOgrns :
              LET rows == FilterBy(db.educational_organization, "ogrn", ogrn)
              IN  /\ Cardinality(rows) = 1
                  /\ \A row \in rows :
                        /\ FieldsFrom(db, row, FirstWith(ogrn))
                        /\ ProgramsAndParent(ogrn, row)

\* C40 amended: the same, the descriptive fields and the region being those
\* of the first record only for an organization that the run created; an
\* organization that storage held keeps the fields and the region it had, and
\* without a branch record with a resolvable parent OGRN the parent is the one
\* it had (none for a created organization).
C40_DuplicateOgrn ==
    (Ended /\ outcome = "committed")
        => \A ogrn \in RepeatedOgrns :
              LET rows == FilterBy(db.educational_organization, "ogrn", ogrn)
                  old == FilterBy(dbBefore.educational_organization, "ogrn", ogrn)
              IN  /\ Cardinality(rows) = 1
                  /\ \A row \in rows :
                        /\ old = {} => FieldsFrom(db, row, FirstWith(ogrn))
                        /\ \A r \in old : RecordColumns(row) = RecordColumns(r)
                        /\ ProgramsAndParent(ogrn, row)
                        /\ ResolvableBranches(ogrn) = {}
                              => /\ old = {} => row.parent_id = NoId
                                 /\ \A r \in old : row.parent_id = r.parent_id

\* a committed run created one organization from two records of one OGRN that
\* differ in name, region and parent: the row has the name of the first and
\* the parent the first names (the parent OGRN of the second names no
\* organization), and the programs of both are stored
C40_Witness ==
    /\ Ended /\ outcome = "committed"
    /\ Len(input) = 2
    /\ input[1].ogrn = input[2].ogrn
    /\ input[1].full_name # input[2].full_name
    /\ ResolvedRegion(input[1]) # ResolvedRegion(input[2])
    /\ ResolvableBranches(input[1].ogrn) = {1}
    /\ input[1].programs # <<>> /\ input[2].programs # <<>>
    /\ \E row \in db.educational_organization :
         /\ row.ogrn = input[1].ogrn
         /\ row \notin dbBefore.educational_organization
         /\ row.full_name = input[1].full_name
         /\ row.parent_id # NoId
    /\ ProgramsStored(db, 1) /\ ProgramsStored(db, 2)

====
